---- MODULE Spec2Model ----
(***************************************************************************)
(* McCabe-Thiele stage calculation of chemetk                              *)
(* (src/chemetk/unit_ops/distillation.py) over the equilibrium model of    *)
(* src/src/chemetk/thermo/vle.py.                                          *)
(*                                                                         *)
(* Numbers.  The program computes with Python floats.  Here a float is a   *)
(* fixed-point integer with Scale units to 1.0 (x = 950 is the mole        *)
(* fraction 0.95), products and quotients are rounded down to the grid,    *)
(* and the not-a-number value of IEEE arithmetic is the value NaN, which   *)
(* every arithmetic operator propagates and every comparison answers       *)
(* FALSE on, as the hardware does.                                         *)
(***************************************************************************)
EXTENDS Integers, Sequences, FiniteSets, TLC

VARIABLES vle, col, run, ask, web, mgr, nist, summary

vars == <<vle, col, run, ask, web, mgr, nist, summary>>

----------------------------------------------------------------------------
(* Fixed-point floats with NaN *)

Scale ==
    1000

NaN ==
    -1000000000

MaxStages ==
    150

IsNaN(a) == a = NaN

FAdd(a, b) == IF IsNaN(a) \/ IsNaN(b) THEN NaN ELSE a + b

FSub(a, b) == IF IsNaN(a) \/ IsNaN(b) THEN NaN ELSE a - b

\* floor of n/d for d # 0, whatever the signs
FloorDiv(n, d) == IF d > 0 THEN n \div d ELSE (0 - n) \div (0 - d)

FMul(a, b) == IF IsNaN(a) \/ IsNaN(b) THEN NaN ELSE FloorDiv(a * b, Scale)

\* Python's float division; the caller tests b = 0 first (ZeroDivisionError)
FDiv(a, b) == IF IsNaN(a) \/ IsNaN(b) THEN NaN ELSE FloorDiv(a * Scale, b)

\* numpy.float64 division: 0/0 is nan (a warning, no exception)
NpDiv(a, b) ==
    IF IsNaN(a) \/ IsNaN(b) \/ b = 0 THEN NaN ELSE FloorDiv(a * Scale, b)

FGt(a, b) == ~IsNaN(a) /\ ~IsNaN(b) /\ a > b

FLt(a, b) == ~IsNaN(a) /\ ~IsNaN(b) /\ a < b

FGe(a, b) == ~IsNaN(a) /\ ~IsNaN(b) /\ a >= b

FLe(a, b) == ~IsNaN(a) /\ ~IsNaN(b) /\ a <= b

----------------------------------------------------------------------------
(* The equilibrium model: VLE of thermo/vle.py *)

\* The data files the model is built from: data points in file order, each
\* with temp, x, y and an optional alpha (a point without one has no such key).
DataPoints(name) ==
    CASE name = "normal" ->
           << [temp |-> 1000, x |-> 0,    y |-> 0,    alpha |-> 2500],
              [temp |-> 930,  x |-> 200,  y |-> 385,  alpha |-> 2500],
              [temp |-> 880,  x |-> 400,  y |-> 625,  alpha |-> 2500],
              [temp |-> 840,  x |-> 600,  y |-> 789,  alpha |-> 2500],
              [temp |-> 810,  x |-> 800,  y |-> 909,  alpha |-> 2500],
              [temp |-> 780,  x |-> 1000, y |-> 1000] >>
      [] name = "diagonal" ->
           << [temp |-> 900, x |-> 0,    y |-> 0,    alpha |-> 1000],
              [temp |-> 880, x |-> 300,  y |-> 300],
              [temp |-> 860, x |-> 600,  y |-> 600],
              [temp |-> 840, x |-> 1000, y |-> 1000] >>
      [] name = "partial" ->
           << [temp |-> 950, x |-> 100, y |-> 250, alpha |-> 3000],
              [temp |-> 900, x |-> 300, y |-> 550, alpha |-> 2800],
              [temp |-> 860, x |-> 500, y |-> 720, alpha |-> 2600],
              [temp |-> 830, x |-> 700, y |-> 850, alpha |-> 2400],
              [temp |-> 800, x |-> 900, y |-> 940, alpha |-> 2200] >>
      [] name = "slow" ->
           << [temp |-> 1000, x |-> 0,   y |-> 5],
              [temp |-> 950,  x |-> 295, y |-> 300],
              [temp |-> 900,  x |-> 595, y |-> 600],
              [temp |-> 850,  x |-> 995, y |-> 1000] >>

DataSets == {"normal", "diagonal", "partial", "slow"}

Column(points, f) == [i \in 1..Len(points) |-> points[i][f]]

SeqMin(s) == CHOOSE m \in {s[i] : i \in 1..Len(s)} : \A i \in 1..Len(s) : m <= s[i]

SeqMax(s) == CHOOSE m \in {s[i] : i \in 1..Len(s)} : \A i \in 1..Len(s) : m >= s[i]

Between(a, b, q) == (a <= q /\ q <= b) \/ (b <= q /\ q <= a)

\* a query outside the samples answered with the nearest sample
Interp1dClamped(xs, ys, q) ==
    IF IsNaN(q) THEN NaN
    ELSE LET i == CHOOSE k \in 1..Len(xs) :
                     \A j \in 1..Len(xs) :
                         (IF xs[k] > q THEN xs[k] - q ELSE q - xs[k])
                             <= (IF xs[j] > q THEN xs[j] - q ELSE q - xs[j])
         IN  ys[i]

\* scipy interp1d(xs, ys, kind='cubic', bounds_error=False, fill_value=nan):
\* nan outside [min xs, max xs] (and on a nan query), the sample value at a
\* node, and between two nodes a value between them, here the one on the
\* chord, rounded down to the grid.
Interp1d(xs, ys, q) ==
    IF IsNaN(q) \/ q < SeqMin(xs) \/ q > SeqMax(xs) THEN NaN
    ELSE LET i == CHOOSE k \in 1..(Len(xs) - 1) :
                     /\ Between(xs[k], xs[k + 1], q)
                     /\ \A j \in 1..(k - 1) : ~Between(xs[j], xs[j + 1], q)
         IN  IF q = xs[i] THEN ys[i]
             ELSE IF q = xs[i + 1] THEN ys[i + 1]
             ELSE ys[i] + FloorDiv((q - xs[i]) * (ys[i + 1] - ys[i]),
                                   xs[i + 1] - xs[i])

\* the points that carry an alpha value
AlphaPoints(points) == SelectSeq(points, LAMBDA p : "alpha" \in DOMAIN p)

get_temperature_by_x(v, x) ==
    Interp1d(Column(DataPoints(v), "x"), Column(DataPoints(v), "temp"), x)

get_y_by_x(v, x) ==
    Interp1d(Column(DataPoints(v), "x"), Column(DataPoints(v), "y"), x)

get_x_by_y(v, y) ==
    Interp1d(Column(DataPoints(v), "y"), Column(DataPoints(v), "x"), y)

get_alpha_by_x(v, x) ==
    LET ap == AlphaPoints(DataPoints(v))
    IN  IF Len(ap) > 1
        THEN Interp1d(Column(ap, "x"), Column(ap, "alpha"), x)
        ELSE NaN

get_temperature_by_y(v, y) ==
    Interp1d(Column(DataPoints(v), "y"), Column(DataPoints(v), "temp"), y)

get_x_by_temp(v, temp) ==
    Interp1d(Column(DataPoints(v), "temp"), Column(DataPoints(v), "x"), temp)

get_y_by_temp(v, temp) ==
    Interp1d(Column(DataPoints(v), "temp"), Column(DataPoints(v), "y"), temp)

get_alpha_by_temp(v, temp) ==
    LET ap == AlphaPoints(DataPoints(v))
    IN  IF Len(ap) > 1
        THEN Interp1d(Column(ap, "temp"), Column(ap, "alpha"), temp)
        ELSE NaN

\* the queries answered by an interpolation map over all data points, and
\* the two answered by the alpha map
MapQueries ==
    {"get_temperature_by_x", "get_temperature_by_y", "get_y_by_x",
     "get_x_by_y", "get_x_by_temp", "get_y_by_temp"}

AlphaQueries == {"get_alpha_by_x", "get_alpha_by_temp"}

\* the data column a query interpolates over (its input axis)
InputAxis(fn) ==
    CASE fn \in {"get_temperature_by_x", "get_y_by_x", "get_alpha_by_x"} -> "x"
      [] fn \in {"get_temperature_by_y", "get_x_by_y"} -> "y"
      [] OTHER -> "temp"

\* vle.<fn>(q) for a scalar q
ScalarQuery(v, fn, q) ==
    CASE fn = "get_temperature_by_x" -> get_temperature_by_x(v, q)
      [] fn = "get_temperature_by_y" -> get_temperature_by_y(v, q)
      [] fn = "get_y_by_x" -> get_y_by_x(v, q)
      [] fn = "get_x_by_y" -> get_x_by_y(v, q)
      [] fn = "get_x_by_temp" -> get_x_by_temp(v, q)
      [] fn = "get_y_by_temp" -> get_y_by_temp(v, q)
      [] fn = "get_alpha_by_x" -> get_alpha_by_x(v, q)
      [] fn = "get_alpha_by_temp" -> get_alpha_by_temp(v, q)

\* what the conversion of nan to int64 leaves in an integer array: the C
\* conversion is undefined, the smallest integer on x86 and 0 on ARM
IntMin ==
    -2147483647

IntNaNCasts == {IntMin, 0}

\* np.full_like(x, np.nan): an array of the shape and dtype of x
FullLikeNaN(xs, dtype, cast) ==
    [i \in 1..Len(xs) |-> IF dtype = "int64" THEN cast ELSE NaN]

\* vle.<fn>(xs) for an array (or list) xs of the given dtype: interp1d
\* answers element by element in float64; the alpha lambdas of a model with
\* fewer than two alpha points answer np.full_like(xs, np.nan)
BatchQuery(v, fn, xs, dtype, cast) ==
    IF fn \in AlphaQueries /\ Len(AlphaPoints(DataPoints(v))) <= 1
    THEN FullLikeNaN(xs, dtype, cast)
    ELSE [i \in 1..Len(xs) |-> ScalarQuery(v, fn, xs[i])]

\* no query made yet
NoAsk == [pc |-> "idle"]

----------------------------------------------------------------------------
(* McCabeThiele.__init__ *)

\* total_reflux = (float(F) == 0. and float(D) == 0. and float(W) == 0.)
TotalReflux(F, D, W) == F = 0 /\ D = 0 /\ W = 0

\* the feed composition taken as the switch point for every q
XIntersectAtFeed(x_F, q, L_over_V, D_xD_over_V) == x_F

\* the q == 0 branch without its division by L_over_V
XIntersectUndivided(x_F, q, L_over_V, D_xD_over_V) ==
    IF q = Scale THEN x_F
    ELSE IF q = 0 THEN x_F - D_xD_over_V
    ELSE LET m_q == FDiv(q, q - Scale)
             b_q == x_F - FMul(m_q, x_F)
         IN  FDiv(D_xD_over_V - b_q, m_q - L_over_V)

\* x_intersect of the regular mode: q == 1, q == 0 and the general q-line
XIntersect(x_F, q, L_over_V, D_xD_over_V) ==
    IF q = Scale THEN x_F
    ELSE IF q = 0 THEN FDiv(x_F - D_xD_over_V, L_over_V)
    ELSE LET m_q == FDiv(q, q - Scale)
             b_q == x_F - FMul(m_q, x_F)
         IN  FDiv(D_xD_over_V - b_q, m_q - L_over_V)

\* the divisions of the regular-mode branch, in program order: a zero
\* divisor raises ZeroDivisionError and no object is constructed
InitRaises(x_D, x_W, x_F, q, R, D, F, W) ==
    LET V == FMul(R + Scale, D)
        V_prime == V - FMul(Scale - q, F)
        L_over_V == FDiv(R, R + Scale)
    IN  \/ R + Scale = 0
        \/ V = 0
        \/ V_prime = 0
        \/ q # Scale /\ q = 0 /\ L_over_V = 0
        \/ q # Scale /\ q # 0 /\ FDiv(q, q - Scale) - L_over_V = 0

\* the object the constructor returns, or the exception it raises
McCabeThiele(v, x_D, x_W, x_F, q, R, D, F, W) ==
    LET given == [state |-> "built", vle |-> v, x_D |-> x_D, x_W |-> x_W,
                  x_F |-> x_F, q |-> q, R |-> R, D |-> D, F |-> F, W |-> W]
    IN
    IF TotalReflux(F, D, W)
    THEN given @@ [total_reflux |-> TRUE,
                   L_over_V |-> Scale, D_xD_over_V |-> 0,
                   L_prime_over_V_prime |-> Scale, W_xW_over_V_prime |-> 0,
                   x_intersect |-> x_F, y_intersect |-> x_F]
    ELSE IF InitRaises(x_D, x_W, x_F, q, R, D, F, W)
    THEN [state |-> "raised", error |-> "ZeroDivisionError"]
    ELSE LET L == FMul(R, D)
             V == FMul(R + Scale, D)
             L_prime == L + FMul(q, F)
             V_prime == V - FMul(Scale - q, F)
             L_over_V == FDiv(R, R + Scale)
             D_xD_over_V == FDiv(FMul(D, x_D), V)
             x_intersect == XIntersect(x_F, q, L_over_V, D_xD_over_V)
         IN  given @@ [total_reflux |-> FALSE,
                       L |-> L, V |-> V, L_prime |-> L_prime, V_prime |-> V_prime,
                       L_over_V |-> L_over_V, D_xD_over_V |-> D_xD_over_V,
                       L_prime_over_V_prime |-> FDiv(L_prime, V_prime),
                       W_xW_over_V_prime |-> FDiv(FMul(W, x_W), V_prime),
                       x_intersect |-> x_intersect,
                       y_intersect |-> FMul(L_over_V, x_intersect) + D_xD_over_V]

\* the section read off the feed composition in every mode
GetSectionByFeed(c, x) ==
    IF FGt(x, c.x_F) THEN "rectifying" ELSE "stripping"

\* the section read off x_intersect without the total-reflux test
GetSectionByIntersect(c, x) ==
    IF FGt(x, c.x_intersect) THEN "rectifying" ELSE "stripping"

\* _get_section
GetSection(c, x) ==
    IF c.total_reflux THEN "total-reflux"
    ELSE IF FGt(x, c.x_intersect) THEN "rectifying"
    ELSE "stripping"

----------------------------------------------------------------------------
(* One call of calculate_stages: its arguments, its locals, its outcome *)

NewRun ==
    [pc |-> "idle", obj |-> 0, start_from |-> "none", E |-> 0,
     return_decimal_stages |-> FALSE,
     stages |-> <<>>, stage_number |-> 0,
     current_x |-> 0, current_y |-> 0,
     current_y_actual |-> 0, current_y_equilibrium |-> 0,
     iters |-> 0, queries |-> 0, warned |-> FALSE,
     error |-> "none", returned |-> FALSE,
     has_decimal |-> FALSE, decimal_stages |-> 0]

\* the guard off by one: a 151st execution of the body
BreakGuardLate(stage_number) == stage_number > MaxStages + 1

\* "if stage_number > 150: print(warning); break"
BreakGuard(stage_number) == stage_number > MaxStages

\* any start_from but 'top' taken as 'bottom'
DispatchElseBottom(start_from) ==
    IF start_from = "top" THEN "top" ELSE "bottom"

\* the branch of calculate_stages taken for start_from
Dispatch(start_from) ==
    IF start_from = "top" THEN "top"
    ELSE IF start_from = "bottom" THEN "bottom"
    ELSE "ValueError"

(* _calculate_decimal_stages *)

\* the test of one iteration of the for loop, at index i counted from 0:
\* x_current >= self.x_W >= x_next, or y_current <= self.x_D <= y_next
DecimalPairBrackets(keys, target, direction, i) ==
    IF direction = "top"
    THEN FGe(keys[i + 1], target) /\ FGe(target, keys[i + 2])
    ELSE FLe(keys[i + 1], target) /\ FLe(target, keys[i + 2])

\* the fraction with numerator and denominator exchanged
DecimalFractionInverted(keys, target, direction, i) ==
    IF direction = "top"
    THEN NpDiv(FSub(keys[i + 1], keys[i + 2]), FSub(keys[i + 1], target))
    ELSE NpDiv(FSub(keys[i + 2], keys[i + 1]), FSub(target, keys[i + 1]))

\* the fraction of the pair at index i
DecimalFraction(keys, target, direction, i) ==
    IF direction = "top"
    THEN NpDiv(FSub(keys[i + 1], target), FSub(keys[i + 1], keys[i + 2]))
    ELSE NpDiv(FSub(target, keys[i + 1]), FSub(keys[i + 2], keys[i + 1]))

\* the indices from i on at which the loop would return
DecimalHits(keys, target, direction, i) ==
    {j \in i..(Len(keys) - 2) : DecimalPairBrackets(keys, target, direction, j)}

\* the integer part taken from the 1-based stage number of the pair
DecimalScanStageNumber(keys, target, direction, i) ==
    LET hits == DecimalHits(keys, target, direction, i)
    IN  IF hits = {} THEN Len(keys) * Scale
        ELSE LET j == CHOOSE h \in hits : \A k \in hits : h <= k
             IN  FAdd((j + 1) * Scale, DecimalFraction(keys, target, direction, j))

\* the fallback returning the last index instead of the number of stages
DecimalScanLastIndex(keys, target, direction, i) ==
    LET hits == DecimalHits(keys, target, direction, i)
    IN  IF hits = {} THEN (Len(keys) - 1) * Scale
        ELSE LET j == CHOOSE h \in hits : \A k \in hits : h <= k
             IN  FAdd(j * Scale, DecimalFraction(keys, target, direction, j))

\* the for loop from index i (0-based, as in the program) on: it returns at
\* the first index whose pair brackets the target, and the number of stages
\* is returned after it
DecimalScan(keys, target, direction, i) ==
    LET hits == DecimalHits(keys, target, direction, i)
    IN  IF hits = {} THEN Len(keys) * Scale
        ELSE LET j == CHOOSE h \in hits : \A k \in hits : h <= k
             IN  FAdd(j * Scale, DecimalFraction(keys, target, direction, j))

CalculateDecimalStages(c, stages_df, calculation_direction) ==
    IF Len(stages_df) < 2 THEN Len(stages_df) * Scale
    ELSE IF calculation_direction = "top"
    THEN DecimalScan([i \in 1..Len(stages_df) |-> stages_df[i].x_liquid],
                     c.x_W, "top", 0)
    ELSE DecimalScan([i \in 1..Len(stages_df) |-> stages_df[i].y_vapor_actual],
                     c.x_D, "bottom", 0)

\* the end of calculate_stages: the ladder, and the decimal count if asked for
Return(c, l, stages) ==
    [l EXCEPT !.pc = "done", !.returned = TRUE, !.stages = stages,
              !.has_decimal = l.return_decimal_stages,
              !.decimal_stages =
                  IF l.return_decimal_stages
                  THEN CalculateDecimalStages(c, stages, l.start_from)
                  ELSE 0]

(* _calculate_from_top *)

\* the record carrying the caller's efficiency on every stage
TopStageCallerEfficiency(c, l, efficiency) ==
    [stage |-> l.stage_number,
     x_liquid |-> l.current_x,
     y_vapor |-> l.current_y,
     temperature |-> get_temperature_by_x(c.vle, l.current_x),
     relative_volatility |-> get_alpha_by_x(c.vle, l.current_x),
     efficiency |-> l.E,
     section |-> GetSection(c, l.current_x)]

TopStage(c, l, efficiency) ==
    [stage |-> l.stage_number,
     x_liquid |-> l.current_x,
     y_vapor |-> l.current_y,
     temperature |-> get_temperature_by_x(c.vle, l.current_x),
     relative_volatility |-> get_alpha_by_x(c.vle, l.current_x),
     efficiency |-> efficiency,
     section |-> GetSection(c, l.current_x)]

\* the stripping line taken in every section of a regular column
TopNextYStripping(c, x) ==
    IF c.total_reflux THEN x
    ELSE FSub(FMul(c.L_prime_over_V_prime, x), c.W_xW_over_V_prime)

\* the operating line stepped along from liquid composition x
TopNextY(c, x) ==
    IF c.total_reflux THEN x
    ELSE IF FGt(x, c.x_intersect)
    THEN FAdd(FMul(c.L_over_V, x), c.D_xD_over_V)
    ELSE FSub(FMul(c.L_prime_over_V_prime, x), c.W_xW_over_V_prime)

\* the locals on entry
TopEntry(c, l) ==
    [l EXCEPT !.pc = "top_loop", !.stages = <<>>, !.stage_number = 1,
              !.current_x = c.x_D, !.current_y = c.x_D]

TopWhile(c, l) == FGt(l.current_x, c.x_W)

\* the efficiency applied away from the equilibrium composition
XActualNextAway(x, E_ml, x_equilibrium_next) ==
    FAdd(x, FMul(E_ml, FSub(x, x_equilibrium_next)))

\* the equilibrium composition taken whatever the efficiency
XActualNextIdeal(x, E_ml, x_equilibrium_next) == x_equilibrium_next

\* x_actual_next = current_x - E_ml * (current_x - x_equilibrium_next)
XActualNext(x, E_ml, x_equilibrium_next) ==
    FSub(x, FMul(E_ml, FSub(x, x_equilibrium_next)))

\* one execution of the loop body
TopBody(c, l) ==
    LET x == l.current_x
        next_y == TopNextY(c, x)
        x_equilibrium_next == get_x_by_y(c.vle, next_y)
        x_actual_next == XActualNext(x, l.E, x_equilibrium_next)
        n == l.stage_number + 1
    IN  [l EXCEPT !.stages = Append(@, TopStage(c, l,
                                 IF l.stage_number > 1 THEN l.E ELSE Scale)),
                  !.current_x = x_actual_next,
                  !.current_y = next_y,
                  !.stage_number = n,
                  !.iters = @ + 1,
                  !.queries = @ + 3,
                  !.warned = BreakGuard(n),
                  !.pc = IF BreakGuard(n) THEN "top_break" ELSE "top_loop"]

\* the last stage left out when the loop was left by the guard
TopFinishUnlessWarned(c, l) ==
    IF l.stages # <<>> /\ FLe(l.current_x, c.x_W) /\ ~l.warned
    THEN Return(c, [l EXCEPT !.queries = @ + 2],
                Append(l.stages, TopStage(c, l, l.E)))
    ELSE Return(c, l, l.stages)

\* after the loop: the last stage, and the return
TopFinish(c, l) ==
    IF l.stages # <<>> /\ FLe(l.current_x, c.x_W)
    THEN Return(c, [l EXCEPT !.queries = @ + 2],
                Append(l.stages, TopStage(c, l, l.E)))
    ELSE Return(c, l, l.stages)

(* _calculate_from_bottom *)

BottomStage(c, l, efficiency) ==
    [stage |-> l.stage_number,
     x_liquid |-> l.current_x,
     y_vapor_actual |-> l.current_y_actual,
     y_vapor_equilibrium |-> l.current_y_equilibrium,
     temperature |-> get_temperature_by_x(c.vle, l.current_x),
     relative_volatility |-> get_alpha_by_x(c.vle, l.current_x),
     efficiency |-> efficiency,
     section |-> GetSection(c, l.current_x)]

\* the reboiler vapour taken on the diagonal instead of at equilibrium
BottomEntryOnDiagonal(c, l) ==
    [l EXCEPT !.pc = "bottom_loop", !.stages = <<>>, !.stage_number = 1,
              !.current_x = c.x_W,
              !.current_y_equilibrium = get_y_by_x(c.vle, c.x_W),
              !.current_y_actual = c.x_W,
              !.queries = @ + 1]

BottomEntry(c, l) ==
    [l EXCEPT !.pc = "bottom_loop", !.stages = <<>>, !.stage_number = 1,
              !.current_x = c.x_W,
              !.current_y_equilibrium = get_y_by_x(c.vle, c.x_W),
              !.current_y_actual = get_y_by_x(c.vle, c.x_W),
              !.queries = @ + 1]

BottomWhile(c, l) == FLt(l.current_y_actual, c.x_D)

\* the divisor of the inverse operating line taken from liquid composition x
BottomDivisor(c, x) ==
    IF FLe(x, c.x_intersect) THEN c.L_prime ELSE c.L

\* the inverse operating line chosen by the feed composition
BottomNextXByFeed(c, x, y_actual) ==
    IF c.total_reflux THEN y_actual
    ELSE IF FLe(x, c.x_F)
    THEN FDiv(FAdd(FMul(c.V_prime, y_actual), FMul(c.W, c.x_W)), c.L_prime)
    ELSE FDiv(FSub(FMul(c.V, y_actual), FMul(c.D, c.x_D)), c.L)

\* the stripping line taken only strictly below x_intersect
BottomNextXStrict(c, x, y_actual) ==
    IF c.total_reflux THEN y_actual
    ELSE IF FLt(x, c.x_intersect)
    THEN FDiv(FAdd(FMul(c.V_prime, y_actual), FMul(c.W, c.x_W)), c.L_prime)
    ELSE FDiv(FSub(FMul(c.V, y_actual), FMul(c.D, c.x_D)), c.L)

\* the inverse operating line: the next liquid composition
BottomNextX(c, x, y_actual) ==
    IF c.total_reflux THEN y_actual
    ELSE IF FLe(x, c.x_intersect)
    THEN FDiv(FAdd(FMul(c.V_prime, y_actual), FMul(c.W, c.x_W)), c.L_prime)
    ELSE FDiv(FSub(FMul(c.V, y_actual), FMul(c.D, c.x_D)), c.L)

BottomBody(c, l) ==
    LET recorded == [l EXCEPT !.stages = Append(@, BottomStage(c, l,
                                 IF l.stage_number > 1 THEN l.E ELSE Scale)),
                              !.iters = @ + 1,
                              !.queries = @ + 2]
    IN
    IF ~c.total_reflux /\ BottomDivisor(c, l.current_x) = 0
    THEN [recorded EXCEPT !.pc = "raised", !.error = "ZeroDivisionError"]
    ELSE
    LET next_x == BottomNextX(c, l.current_x, l.current_y_actual)
        y_equilibrium_next == get_y_by_x(c.vle, next_x)
        y_actual_next ==
            FAdd(l.current_y_actual,
                 FMul(l.E, FSub(y_equilibrium_next, l.current_y_actual)))
        n == l.stage_number + 1
    IN  [recorded EXCEPT !.current_x = next_x,
                         !.current_y_actual = y_actual_next,
                         !.current_y_equilibrium = y_equilibrium_next,
                         !.stage_number = n,
                         !.queries = @ + 1,
                         !.warned = BreakGuard(n),
                         !.pc = IF BreakGuard(n) THEN "bottom_break"
                                ELSE "bottom_loop"]

BottomFinish(c, l) ==
    IF l.stages # <<>> /\ FGe(l.current_y_actual, c.x_D)
    THEN Return(c, [l EXCEPT !.queries = @ + 2],
                Append(l.stages, BottomStage(c, l, l.E)))
    ELSE Return(c, l, l.stages)

\* the call has returned or raised
Ended(l) == l.pc \in {"done", "raised"}

\* calculate_stages up to the first loop test
CalculateStages(c, l, start_from, murphree_efficiency, return_decimal_stages) ==
    LET args == [l EXCEPT !.start_from = start_from,
                          !.E = murphree_efficiency,
                          !.return_decimal_stages = return_decimal_stages]
    IN  CASE Dispatch(start_from) = "top" -> TopEntry(c, args)
          [] Dispatch(start_from) = "bottom" -> BottomEntry(c, args)
          [] OTHER -> [args EXCEPT !.pc = "raised", !.error = "ValueError"]

----------------------------------------------------------------------------
(* The state outside the stage calculator *)

\* no request to the web page yet
NoRequest == [pc |-> "idle"]

\* no VLEManager constructed
NoManager == [pc |-> "none"]

\* the NIST cache directory is not in use
NoCache == [pc |-> "unused"]

\* print_summary has not been called
NoSummary == [pc |-> "none"]

others == <<ask, web, mgr, nist, summary>>

OthersInit ==
    /\ ask = NoAsk /\ web = NoRequest /\ mgr = NoManager /\ nist = NoCache
    /\ summary = NoSummary

----------------------------------------------------------------------------
(* The inputs explored *)

\* (x_D, x_W)
Ends == {<<950, 50>>, <<900, 150>>, <<500, 500>>}

\* the feed, the reflux ratio and the flows
ColumnInputs ==
    {[x_F |-> 500, q |-> 1000, R |-> 2000, D |-> 0,   F |-> 0,    W |-> 0],
     [x_F |-> 300, q |-> 0,    R |-> 1000, D |-> 0,   F |-> 0,    W |-> 0],
     [x_F |-> 500, q |-> 1000, R |-> 2000, D |-> 500, F |-> 1000, W |-> 500],
     [x_F |-> 500, q |-> 500,  R |-> 2000, D |-> 500, F |-> 1000, W |-> 500],
     [x_F |-> 500, q |-> 0,    R |-> 3000, D |-> 500, F |-> 1000, W |-> 500],
     [x_F |-> 100, q |-> 1000, R |-> 0,    D |-> 500, F |-> 1000, W |-> 500],
     [x_F |-> 500, q |-> 0,    R |-> 0,    D |-> 500, F |-> 1000, W |-> 500],
     [x_F |-> 500, q |-> 1000, R |-> 2000, D |-> 500, F |-> 1000, W |-> 0],
     [x_F |-> 500, q |-> 1000, R |-> 2000, D |-> 0,   F |-> 1000, W |-> 500],
     [x_F |-> 500, q |-> 1000, R |-> 2000, D |-> 500, F |-> 0,    W |-> 500]}

StartFroms == {"top", "bottom", "middle"}

Efficiencies == {0, Scale \div 2, Scale}

Objs == {1, 2}

Runs == {1, 2}

----------------------------------------------------------------------------
(* The state machine *)

Init ==
    /\ vle \in DataSets
    /\ col = [o \in Objs |-> [state |-> "none"]]
    /\ run = [r \in Runs |-> NewRun]
    /\ OthersInit

\* the loop keeping its position in the object instead of in a local
SelfAfterStepAdvanced(c, l) == [c EXCEPT !.x_D = l.current_x]

\* what a step of a run leaves of the object it runs on: the loop bodies and
\* the code after them assign locals only
SelfAfterStep(c, l) == c

\* McCabeThiele(vle, ...): a fresh object, its arguments drawn from the
\* sets given
Construct(o, ends, inputs) ==
    /\ col[o].state = "none"
    /\ \E e \in ends, p \in inputs :
           col' = [col EXCEPT ![o] =
                      McCabeThiele(vle, e[1], e[2], p.x_F, p.q, p.R, p.D, p.F, p.W)]
    /\ UNCHANGED <<vle, run>>
    /\ UNCHANGED others

\* obj.calculate_stages(start_from, murphree_efficiency, return_decimal_stages)
Call(r, o, start_froms, efficiencies, rets) ==
    /\ run[r].pc = "idle"
    /\ col[o].state = "built"
    /\ \E sf \in start_froms, E \in efficiencies, ret \in rets :
           run' = [run EXCEPT ![r] =
                      CalculateStages(col[o], [run[r] EXCEPT !.obj = o], sf, E, ret)]
    /\ UNCHANGED <<vle, col>>
    /\ UNCHANGED others

Step(r, l) ==
    /\ run' = [run EXCEPT ![r] = l]
    /\ col' = [col EXCEPT ![run[r].obj] = SelfAfterStep(col[run[r].obj], l)]
    /\ UNCHANGED vle
    /\ UNCHANGED others

TopIter(r) ==
    /\ run[r].pc = "top_loop"
    /\ TopWhile(col[run[r].obj], run[r])
    /\ Step(r, TopBody(col[run[r].obj], run[r]))

TopExit(r) ==
    /\ \/ run[r].pc = "top_break"
       \/ run[r].pc = "top_loop" /\ ~TopWhile(col[run[r].obj], run[r])
    /\ Step(r, TopFinish(col[run[r].obj], run[r]))

BottomIter(r) ==
    /\ run[r].pc = "bottom_loop"
    /\ BottomWhile(col[run[r].obj], run[r])
    /\ Step(r, BottomBody(col[run[r].obj], run[r]))

BottomExit(r) ==
    /\ \/ run[r].pc = "bottom_break"
       \/ run[r].pc = "bottom_loop" /\ ~BottomWhile(col[run[r].obj], run[r])
    /\ Step(r, BottomFinish(col[run[r].obj], run[r]))

\* one object, one call on it
Next ==
    \/ Construct(1, Ends, ColumnInputs)
    \/ Call(1, 1, StartFroms, Efficiencies, BOOLEAN)
    \/ TopIter(1)
    \/ TopExit(1)
    \/ BottomIter(1)
    \/ BottomExit(1)

Spec == Init /\ [][Next]_vars

----------------------------------------------------------------------------
(* Two calls at once, on one object or on two, over one equilibrium model *)

PairEnds == {<<900, 150>>}

PairInputs ==
    {[x_F |-> 500, q |-> 1000, R |-> 2000, D |-> 0,   F |-> 0,    W |-> 0],
     [x_F |-> 300, q |-> 0,    R |-> 1000, D |-> 0,   F |-> 0,    W |-> 0],
     [x_F |-> 500, q |-> 1000, R |-> 2000, D |-> 500, F |-> 1000, W |-> 500]}

PairDataSets == {"normal", "partial"}

InitPair ==
    /\ vle \in PairDataSets
    /\ col = [o \in Objs |-> [state |-> "none"]]
    /\ run = [r \in Runs |-> NewRun]
    /\ OthersInit

NextPair ==
    \/ \E o \in Objs : Construct(o, PairEnds, PairInputs)
    \/ \E r \in Runs, o \in Objs :
           Call(r, o, {"top", "bottom"}, {Scale \div 2, Scale}, {TRUE})
    \/ \E r \in Runs : TopIter(r)
    \/ \E r \in Runs : TopExit(r)
    \/ \E r \in Runs : BottomIter(r)
    \/ \E r \in Runs : BottomExit(r)

SpecPair == InitPair /\ [][NextPair]_vars

\* a call executed alone, from the state l to its end
RECURSIVE RunToEnd(_, _)
RunToEnd(c, l) ==
    CASE l.pc = "top_loop" /\ TopWhile(c, l) -> RunToEnd(c, TopBody(c, l))
      [] l.pc = "top_loop" /\ ~TopWhile(c, l) -> TopFinish(c, l)
      [] l.pc = "top_break" -> TopFinish(c, l)
      [] l.pc = "bottom_loop" /\ BottomWhile(c, l) -> RunToEnd(c, BottomBody(c, l))
      [] l.pc = "bottom_loop" /\ ~BottomWhile(c, l) -> BottomFinish(c, l)
      [] l.pc = "bottom_break" -> BottomFinish(c, l)
      [] OTHER -> l

\* the whole call obj.calculate_stages(...) executed alone
RunAlone(c, o, start_from, murphree_efficiency, return_decimal_stages) ==
    RunToEnd(c, CalculateStages(c, [NewRun EXCEPT !.obj = o], start_from,
                                murphree_efficiency, return_decimal_stages))

----------------------------------------------------------------------------
(* _calculate_decimal_stages applied to a ladder handed to it *)

MaxLadder ==
    5

KeyValues == {950, 800, 600, 400, 50}

Targets == {500, 600, 50}

RECURSIVE SeqsUpTo(_, _)
SeqsUpTo(S, n) ==
    IF n = 0 THEN {<<>>}
    ELSE LET shorter == SeqsUpTo(S, n - 1)
         IN  shorter \cup {Append(s, v) : s \in {t \in shorter : Len(t) = n - 1}, v \in S}

\* a ladder with the given key values (x_liquid of a top-down ladder,
\* y_vapor_actual of a bottom-up one)
LadderOf(keys, direction) ==
    [i \in 1..Len(keys) |->
        IF direction = "top"
        THEN [stage |-> i, x_liquid |-> keys[i], y_vapor |-> keys[i]]
        ELSE [stage |-> i, x_liquid |-> keys[i], y_vapor_actual |-> keys[i],
              y_vapor_equilibrium |-> keys[i]]]

InitDecimal ==
    /\ vle = "normal"
    /\ \E t \in Targets, direction \in {"top", "bottom"},
          keys \in SeqsUpTo(KeyValues, MaxLadder) :
          /\ col = [o \in Objs |->
                       IF o = 1
                       THEN IF direction = "top"
                            THEN McCabeThiele(vle, 950, t, 500, Scale, 2 * Scale, 0, 0, 0)
                            ELSE McCabeThiele(vle, t, 50, 500, Scale, 2 * Scale, 0, 0, 0)
                       ELSE [state |-> "none"]]
          /\ run = [r \in Runs |->
                       IF r = 1
                       THEN [NewRun EXCEPT !.pc = "ladder", !.obj = 1,
                                           !.start_from = direction,
                                           !.stages = LadderOf(keys, direction)]
                       ELSE NewRun]
          /\ OthersInit

\* obj._calculate_decimal_stages(stages_df, calculation_direction)
Decimal(r) ==
    /\ run[r].pc = "ladder"
    /\ run' = [run EXCEPT ![r] =
                  [run[r] EXCEPT !.pc = "counted", !.has_decimal = TRUE,
                                 !.decimal_stages =
                                     CalculateDecimalStages(col[run[r].obj],
                                                            run[r].stages,
                                                            run[r].start_from)]]
    /\ UNCHANGED <<vle, col>>
    /\ UNCHANGED others

NextDecimal == Decimal(1)

SpecDecimal == InitDecimal /\ [][NextDecimal]_vars

----------------------------------------------------------------------------
(* Queries to the equilibrium model *)

\* scalar arguments: compositions and temperatures inside, at the ends of
\* and outside the sampled ranges of the data sets
QueryValues ==
    {-100, -1, 0, 4, 5, 99, 100, 250, 500, 779, 780, 800, 900, 940, 941, 950,
     999, 1000, 1001, 1200}

BatchValues == {-1, 99, 500, 941, 1001}

\* the elements of integer arrays: whole numbers
IntBatchValues == {0 - Scale, 0, Scale, 2 * Scale}

MaxBatch ==
    2

InitQuery ==
    /\ vle \in DataSets
    /\ col = [o \in Objs |-> [state |-> "none"]]
    /\ run = [r \in Runs |-> NewRun]
    /\ ask = NoAsk
    /\ web = NoRequest
    /\ mgr = NoManager
    /\ nist = NoCache
    /\ summary = NoSummary

\* vle.<fn>(q)
Query ==
    /\ ask.pc = "idle"
    /\ \E fn \in MapQueries \cup AlphaQueries, q \in QueryValues :
           ask' = [pc |-> "answered", fn |-> fn, batch |-> FALSE,
                   dtype |-> "float64", arg |-> <<q>>,
                   result |-> <<ScalarQuery(vle, fn, q)>>]
    /\ UNCHANGED <<vle, col, run, web, mgr, nist, summary>>

\* vle.<fn>(xs)
Batch ==
    /\ ask.pc = "idle"
    /\ \E fn \in MapQueries \cup AlphaQueries, dtype \in {"float64", "int64"},
          cast \in IntNaNCasts :
          \E xs \in SeqsUpTo(IF dtype = "int64" THEN IntBatchValues
                             ELSE BatchValues, MaxBatch) \ {<<>>} :
              ask' = [pc |-> "answered", fn |-> fn, batch |-> TRUE,
                      dtype |-> dtype, arg |-> xs,
                      result |-> BatchQuery(vle, fn, xs, dtype, cast)]
    /\ UNCHANGED <<vle, col, run, web, mgr, nist, summary>>

NextQuery == Query \/ Batch

SpecQuery == InitQuery /\ [][NextQuery]_vars

----------------------------------------------------------------------------
(* The web page: update_graph of web/callbacks.py *)

\* the stored problem definition (F, xF, xD, xW; every field filled in)
\* and the two sliders
WebFeeds == {0, Scale}

WebEnds == {<<950, 50>>, <<900, 150>>, <<500, 500>>}

WebFeedCompositions == {500}

WebSliders == {<<Scale, 2 * Scale>>, <<Scale \div 2, Scale>>}

WebDataSets == {"normal", "partial"}

\* "if F is not None and ... and x_D != x_W: D = F * (x_F - x_W) / (x_D -
\* x_W); W = F - D   else: D, W = 0, 0"
DerivedFlows(F, x_F, x_D, x_W) ==
    IF x_D # x_W
    THEN LET D == FDiv(FMul(F, x_F - x_W), x_D - x_W)
         IN  [D |-> D, W |-> F - D]
    ELSE [D |-> 0, W |-> 0]

InitWeb ==
    /\ vle \in WebDataSets
    /\ col = [o \in Objs |-> [state |-> "none"]]
    /\ run = [r \in Runs |-> NewRun]
    /\ ask = NoAsk
    /\ web = NoRequest
    /\ mgr = NoManager
    /\ nist = NoCache
    /\ summary = NoSummary

\* update_graph up to the first loop test of column.calculate_stages(): the
\* flows, the McCabeThiele object (an exception of the constructor leaves
\* the callback), the entry of the call with its default arguments
UpdateGraph ==
    /\ web.pc = "idle"
    /\ \E F \in WebFeeds, x_F \in WebFeedCompositions, e \in WebEnds,
          s \in WebSliders :
          LET flows == DerivedFlows(F, x_F, e[1], e[2])
              column == McCabeThiele(vle, e[1], e[2], x_F, s[1], s[2],
                                     flows.D, F, flows.W)
              request == [F |-> F, x_F |-> x_F, x_D |-> e[1], x_W |-> e[2],
                          q_value |-> s[1], r_value |-> s[2],
                          D |-> flows.D, W |-> flows.W]
          IN  /\ col' = [col EXCEPT ![1] = column]
              /\ IF column.state = "built"
                 THEN /\ run' = [run EXCEPT ![1] =
                                    CalculateStages(column, [NewRun EXCEPT !.obj = 1],
                                                    "top", Scale, FALSE)]
                      /\ web' = request @@ [pc |-> "stepping", error |-> "none"]
                 ELSE /\ run' = run
                      /\ web' = request @@ [pc |-> "raised", error |-> column.error]
    /\ UNCHANGED <<vle, ask, mgr, nist, summary>>

\* the rest of update_graph once calculate_stages has returned or raised:
\* plot_stages_flag and the figure
Render ==
    /\ web.pc = "stepping"
    /\ Ended(run[1])
    /\ web' = [web EXCEPT !.pc = "figure"] @@
                  [plot_stages_flag |-> run[1].pc = "done"]
    /\ UNCHANGED <<vle, col, run, ask, mgr, nist, summary>>

NextWeb ==
    \/ UpdateGraph
    \/ TopIter(1)
    \/ TopExit(1)
    \/ Render

SpecWeb == InitWeb /\ [][NextWeb]_vars

----------------------------------------------------------------------------
(* VLEManager of io/vle_datamanager.py *)

\* file names without the extension
FileKeys == {"system1", "system2"}

\* what a directory holds under <key>.json: nothing; a JSON object with
\* "name" and "components"; a JSON object without them; text that is not
\* JSON (json.JSONDecodeError, caught); JSON that is not an object
\* (AttributeError on data.get, not caught)
FileKinds == {"absent", "ok", "no_name", "bad_json", "not_dict"}

ReadableKinds == {"ok", "no_name"}

\* the registry entry made from the file <dirname>/<key>.json
FileInfo(dirname, key, kind) ==
    [present |-> TRUE,
     name |-> IF kind = "ok" THEN <<"name in", dirname, key>> ELSE <<key>>,
     path |-> <<dirname, key>>,
     filename |-> key,
     components |-> IF kind = "ok" THEN <<"components in", dirname, key>>
                    ELSE <<"Component_A", "Component_B">>]

NoFileInfo == [present |-> FALSE]

\* the user directory loaded first
LoadOrderUserFirst == <<"user", "builtin">>

\* _load_data_files: the built-in directory, then the user directory
LoadOrder == <<"builtin", "user">>

\* _load_files_from_path: every *.json of the directory that loads is
\* stored under its key, over what the key held before
LoadFilesFromPath(data_files, dirname, dir) ==
    [k \in FileKeys |->
        IF dir[k] \in ReadableKinds THEN FileInfo(dirname, k, dir[k])
        ELSE data_files[k]]

\* an exception that _load_files_from_path does not catch
LoadRaises(dir) == \E k \in FileKeys : dir[k] = "not_dict"

InitManager ==
    /\ vle = "normal"
    /\ col = [o \in Objs |-> [state |-> "none"]]
    /\ run = [r \in Runs |-> NewRun]
    /\ ask = NoAsk
    /\ web = NoRequest
    /\ nist = NoCache
    /\ summary = NoSummary
    /\ \E builtin, user \in [FileKeys -> FileKinds] :
           mgr = [pc |-> "none", dirs |-> [builtin |-> builtin, user |-> user]]

\* VLEManager() up to the call of _load_data_files
NewManager ==
    /\ mgr.pc = "none"
    /\ mgr' = [pc |-> "loading", dirs |-> mgr.dirs, loaded |-> 0,
               data_files |-> [k \in FileKeys |-> NoFileInfo]]
    /\ UNCHANGED <<vle, col, run, ask, web, nist, summary>>

\* the next call of _load_files_from_path in _load_data_files
LoadDirectory ==
    /\ mgr.pc = "loading"
    /\ LET dirname == LoadOrder[mgr.loaded + 1]
           dir == mgr.dirs[dirname]
       IN  mgr' = IF LoadRaises(dir)
                  THEN [pc |-> "raised", dirs |-> mgr.dirs,
                        error |-> "AttributeError"]
                  ELSE [mgr EXCEPT
                           !.data_files = LoadFilesFromPath(@, dirname, dir),
                           !.loaded = @ + 1,
                           !.pc = IF mgr.loaded + 1 = Len(LoadOrder)
                                  THEN "ready" ELSE "loading"]
    /\ UNCHANGED <<vle, col, run, ask, web, nist, summary>>

NextManager == NewManager \/ LoadDirectory

SpecManager == InitManager /\ [][NextManager]_vars

----------------------------------------------------------------------------
(* Ladders with a stage exactly on the switch point: a top-down call on a
   column whose x_D is x_int, a bottom-up call on one whose x_W is x_int *)

TopBoundaryEnds == {<<500, 150>>}

BottomBoundaryEnds == {<<950, 500>>}

\* a saturated-liquid feed, so that x_int = x_F = 0.5
BoundaryInputs ==
    {[x_F |-> 500, q |-> 1000, R |-> 2000, D |-> 500, F |-> 1000, W |-> 500],
     [x_F |-> 500, q |-> 1000, R |-> 3000, D |-> 500, F |-> 1000, W |-> 500]}

InitBoundary ==
    /\ vle \in {"normal", "partial"}
    /\ col = [o \in Objs |-> [state |-> "none"]]
    /\ run = [r \in Runs |-> NewRun]
    /\ OthersInit

NextBoundary ==
    \/ Construct(1, TopBoundaryEnds, BoundaryInputs)
    \/ Construct(2, BottomBoundaryEnds, BoundaryInputs)
    \/ Call(1, 1, {"top"}, {Scale \div 2, Scale}, {FALSE})
    \/ Call(2, 2, {"bottom"}, {Scale \div 2, Scale}, {FALSE})
    \/ TopIter(1)
    \/ TopExit(1)
    \/ BottomIter(2)
    \/ BottomExit(2)

SpecBoundary == InitBoundary /\ [][NextBoundary]_vars

----------------------------------------------------------------------------
(* print_summary on the ladder a call returned *)

\* len(stages_df[stages_df['section'] == section])
CountSection(stages_df, section) ==
    Cardinality({k \in 1..Len(stages_df) : stages_df[k].section = section})

\* what print_summary reports below the table: the stage count and, in
\* regular mode, the stages per section and the feed-stage position; a
\* ladder without records is a DataFrame without a 'section' column
print_summary(c, stages_df, calculation_direction) ==
    IF c.total_reflux
    THEN [pc |-> "printed", integer_stages |-> Len(stages_df),
          sections |-> FALSE]
    ELSE IF stages_df = <<>>
    THEN [pc |-> "raised", error |-> "KeyError"]
    ELSE LET rectifying_stages == CountSection(stages_df, "rectifying")
             stripping_stages == CountSection(stages_df, "stripping")
         IN  [pc |-> "printed", integer_stages |-> Len(stages_df),
              sections |-> TRUE,
              rectifying_stages |-> rectifying_stages,
              stripping_stages |-> stripping_stages,
              feed_stage |-> IF calculation_direction = "top"
                             THEN rectifying_stages + 1
                             ELSE stripping_stages]

SummaryEfficiencies == {Scale \div 2, Scale}

InitSummary ==
    /\ vle \in {"normal", "partial"}
    /\ col = [o \in Objs |-> [state |-> "none"]]
    /\ run = [r \in Runs |-> NewRun]
    /\ OthersInit

\* obj.print_summary(stages, start_from) on the ladder of a returned call
PrintSummary(r) ==
    /\ summary.pc = "none"
    /\ run[r].returned
    /\ summary' = print_summary(col[run[r].obj], run[r].stages,
                                run[r].start_from) @@ [run |-> r]
    /\ UNCHANGED <<vle, col, run, ask, web, mgr, nist>>

NextSummary ==
    \/ Construct(1, Ends, ColumnInputs)
    \/ Call(1, 1, {"top", "bottom"}, SummaryEfficiencies, {FALSE})
    \/ TopIter(1)
    \/ TopExit(1)
    \/ BottomIter(1)
    \/ BottomExit(1)
    \/ PrintSummary(1)

SpecSummary == InitSummary /\ [][NextSummary]_vars

----------------------------------------------------------------------------
(* fetch_isotherm_data and the cache of NIST responses.  Two copies of the
   function exist: nist_webbook.py, which caches through nist_cache.py, and
   nist_datamanager.py, which carries its own cache functions. *)

NistModules == {"nist_webbook", "nist_datamanager"}

\* request_params, reduced to the two arguments that vary here: a dict is
\* the sequence of its items in insertion order, here the order of the
\* dict literal
RequestParams ==
    { <<<<"fluid_id", fluid_id>>, <<"temp", temp>>>> :
        fluid_id \in {"C124389", "C7732185"}, temp \in {300, 350} }

\* the place of a key in the order json.dumps(sort_keys=True) gives the keys
KeyRank(key) == IF key = "fluid_id" THEN 1 ELSE 2

\* the items of params in the order of their keys
SortKeys(params) ==
    LET n == Len(params)
        order == CHOOSE p \in [1..n -> 1..n] :
                   /\ \A i, j \in 1..n : i # j => p[i] # p[j]
                   /\ \A i, j \in 1..n :
                        i < j => KeyRank(params[p[i]][1])
                                   < KeyRank(params[p[j]][1])
    IN  [i \in 1..n |-> params[order[i]]]

\* the parameters as json.dumps(params, sort_keys=True) lists them; sha256
\* of that text is taken to be injective
_get_request_hash(params) == SortKeys(params)

\* the tables read_csv builds from the data lines of a response
Frames ==
    { [columns |-> <<"Pressure", "Density">>, data |-> <<<<100, 40>>>>],
      [columns |-> <<"Pressure", "Density">>,
       data |-> <<<<100, 40>>, <<200, 81>>>>] }

\* what requests.get gives: an exception, a status other than 200, or a
\* status 200 whose text is empty, holds only '#' lines, or holds a table
Responses ==
    {[kind |-> "RequestException"], [kind |-> "status", status_code |-> 404],
     [kind |-> "status", status_code |-> 200, text |-> "empty"],
     [kind |-> "status", status_code |-> 200, text |-> "comments"]}
    \cup {[kind |-> "status", status_code |-> 200, text |-> "table",
           frame |-> f] : f \in Frames}

NoResponse == [kind |-> "none"]

\* response.text.strip().split('\n') without the '#' lines: the empty text
\* splits into one empty line, which is kept
DataLines(response) ==
    CASE response.text = "comments" -> 0
      [] response.text = "empty" -> 1
      [] response.text = "table" -> 1 + Len(response.frame.data)

ColumnIndex(columns, c) == CHOOSE i \in 1..Len(columns) : columns[i] = c

\* df.to_json(filepath, orient=orient): the JSON document written
to_json(df, orient) ==
    IF orient = "split"
    THEN [top |-> "object",
          value |-> [columns |-> df.columns,
                     index |-> [i \in 1..Len(df.data) |-> i - 1],
                     data |-> df.data]]
    ELSE [top |-> "array",
          value |-> [i \in 1..Len(df.data) |->
                       [c \in {df.columns[k] : k \in 1..Len(df.columns)} |->
                          df.data[i][ColumnIndex(df.columns, c)]]]]

None == [tag |-> "None"]

Raised(error) == [tag |-> "raised", error |-> error]

\* pd.read_json(filepath, orient='split'): the parser takes the items of
\* the document, which only a JSON object has
read_json_split(doc) ==
    IF doc.top = "object"
    THEN [tag |-> "frame",
          df |-> [columns |-> doc.value.columns, data |-> doc.value.data]]
    ELSE Raised("AttributeError")

\* the orient cache_data writes with
CacheOrient(module) ==
    IF module = "nist_webbook" THEN "records" ELSE "split"

get_cached_data(n, params) ==
    LET request_hash == _get_request_hash(params)
    IN  IF request_hash \in DOMAIN n.index
           /\ n.index[request_hash].filename \in DOMAIN n.files
        THEN read_json_split(n.files[n.index[request_hash].filename])
        ELSE None

\* the cache after cache_data(df, params): the data file, then the index
cache_data(n, df, params) ==
    LET request_hash == _get_request_hash(params)
        filename == <<request_hash, ".json">>
        entry == [params |-> params, filename |-> filename]
    IN  [n EXCEPT
           !.files = (filename :> to_json(df, CacheOrient(n.module))) @@ @,
           !.index = (request_hash :> entry) @@ @]

\* requests.get raised: nist_datamanager catches RequestException and
\* returns None, nist_webbook has no try around the request
RequestFailed(module) ==
    IF module = "nist_datamanager" THEN None ELSE Raised("RequestException")

\* the network requests the model follows
MaxRequests ==
    3

InitNist ==
    /\ vle = "normal"
    /\ col = [o \in Objs |-> [state |-> "none"]]
    /\ run = [r \in Runs |-> NewRun]
    /\ ask = NoAsk
    /\ web = NoRequest
    /\ mgr = NoManager
    /\ summary = NoSummary
    /\ \E module \in NistModules :
           nist = [pc |-> "ready", module |-> module, index |-> <<>>,
                   files |-> <<>>, requests |-> 0]

\* fetch_isotherm_data(**params), the network answering with response when
\* it is asked
FetchIsothermData ==
    /\ nist.pc \in {"ready", "returned"}
    /\ \E params \in RequestParams, response \in Responses :
         LET cached_df == get_cached_data(nist, params)
             call == [pc |-> "returned", module |-> nist.module,
                      index |-> nist.index, files |-> nist.files,
                      requests |-> nist.requests, params |-> params]
         IN  IF cached_df # None
             THEN nist' = call @@ [response |-> NoResponse,
                                   result |-> cached_df]
             ELSE /\ nist.requests < MaxRequests
                  /\ LET asked == [call EXCEPT !.requests = @ + 1] @@
                                      [response |-> response]
                     IN  nist' =
                           CASE response.kind = "RequestException" ->
                                  asked @@ [result |-> RequestFailed(nist.module)]
                             [] response.kind = "status"
                                  /\ response.status_code # 200 ->
                                  asked @@ [result |-> None]
                             [] response.kind = "status"
                                  /\ response.status_code = 200
                                  /\ DataLines(response) = 0 ->
                                  asked @@ [result |-> None]
                             [] response.kind = "status"
                                  /\ response.status_code = 200
                                  /\ response.text = "empty" ->
                                  asked @@ [result |-> Raised("EmptyDataError")]
                             [] OTHER ->
                                  cache_data(asked, response.frame, params)
                                      @@ [result |-> [tag |-> "frame",
                                                      df |-> response.frame]]
    /\ UNCHANGED <<vle, col, run, ask, web, mgr, summary>>

NextNist == FetchIsothermData

SpecNist == InitNist /\ [][NextNist]_vars

----------------------------------------------------------------------------
(* cache_data and get_cached_data called one after the other *)

\* the dicts a caller can pass: the items of a request in either order
ParamDicts ==
    RequestParams \cup {<<params[2], params[1]>> : params \in RequestParams}

\* the mapping a dict stands for, whatever the order of its items
ItemsOf(params) == {params[i] : i \in 1..Len(params)}

InitRoundTrip ==
    /\ vle = "normal"
    /\ col = [o \in Objs |-> [state |-> "none"]]
    /\ run = [r \in Runs |-> NewRun]
    /\ ask = NoAsk
    /\ web = NoRequest
    /\ mgr = NoManager
    /\ summary = NoSummary
    /\ \E module \in NistModules :
           nist = [pc |-> "ready", module |-> module, index |-> <<>>,
                   files |-> <<>>, requests |-> 0, params |-> <<>>,
                   result |-> None, written |-> <<>>]

\* cache_data(df, params) from its first line to its last; written keeps
\* the table last handed over for each mapping
CacheData ==
    /\ nist.pc \in {"ready", "cached", "read"}
    /\ \E df \in Frames, params \in ParamDicts :
         nist' = [cache_data(nist, df, params) EXCEPT
                    !.pc = "cached", !.params = params, !.result = None,
                    !.written = (ItemsOf(params) :> df) @@ @]
    /\ UNCHANGED <<vle, col, run, ask, web, mgr, summary>>

\* get_cached_data(params)
GetCachedData ==
    /\ nist.pc \in {"ready", "cached", "read"}
    /\ \E params \in ParamDicts :
         nist' = [nist EXCEPT
                    !.pc = "read", !.params = params,
                    !.result = get_cached_data(nist, params)]
    /\ UNCHANGED <<vle, col, run, ask, web, mgr, summary>>

NextRoundTrip == CacheData \/ GetCachedData

SpecRoundTrip == InitRoundTrip /\ [][NextRoundTrip]_vars

----------------------------------------------------------------------------
(* Two cache_data calls running at the same time *)

Callers == {1, 2}

\* a caller that has not entered cache_data
NoCall == [pc |-> "idle"]

InitRace ==
    /\ vle = "normal"
    /\ col = [o \in Objs |-> [state |-> "none"]]
    /\ run = [r \in Runs |-> NewRun]
    /\ ask = NoAsk
    /\ web = NoRequest
    /\ mgr = NoManager
    /\ summary = NoSummary
    /\ \E module \in NistModules :
           nist = [pc |-> "race", module |-> module, index |-> <<>>,
                   files |-> <<>>, requests |-> 0,
                   calls |-> [p \in Callers |-> NoCall]]

\* index = _load_index(): the caller's own copy of the index file, taken
\* on entry; the two callers pass different request parameters
LoadIndex(p) ==
    /\ nist.pc = "race"
    /\ nist.calls[p].pc = "idle"
    /\ \E df \in Frames, params \in RequestParams :
         /\ \A o \in Callers \ {p} :
                nist.calls[o].pc # "idle" =>
                    _get_request_hash(nist.calls[o].params)
                        # _get_request_hash(params)
         /\ nist' = [nist EXCEPT
                       !.calls[p] = [pc |-> "loaded", df |-> df,
                                     params |-> params,
                                     index |-> nist.index]]
    /\ UNCHANGED <<vle, col, run, ask, web, mgr, summary>>

\* df.to_json(filepath, orient=...)
WriteDataFile(p) ==
    /\ nist.pc = "race"
    /\ nist.calls[p].pc = "loaded"
    /\ LET call == nist.calls[p]
           filename == <<_get_request_hash(call.params), ".json">>
       IN  nist' = [nist EXCEPT
                      !.files = (filename :>
                                   to_json(call.df, CacheOrient(nist.module)))
                                @@ @,
                      !.calls[p].pc = "written"]
    /\ UNCHANGED <<vle, col, run, ask, web, mgr, summary>>

\* index[request_hash] = {...}; _save_index(index): the caller's copy with
\* its entry added replaces the index file
SaveIndex(p) ==
    /\ nist.pc = "race"
    /\ nist.calls[p].pc = "written"
    /\ LET call == nist.calls[p]
           request_hash == _get_request_hash(call.params)
           entry == [params |-> call.params,
                     filename |-> <<request_hash, ".json">>]
       IN  nist' = [nist EXCEPT
                      !.index = (request_hash :> entry) @@ call.index,
                      !.calls[p].pc = "done"]
    /\ UNCHANGED <<vle, col, run, ask, web, mgr, summary>>

NextRace ==
    \E p \in Callers : LoadIndex(p) \/ WriteDataFile(p) \/ SaveIndex(p)

SpecRace == InitRace /\ [][NextRace]_vars

----------------------------------------------------------------------------
(* Properties of calculate_stages *)

Started(l) == l.pc \notin {"idle", "ladder", "counted"}

\* the ladder's last stage crossed the target of its direction
Crossed(c, l) ==
    /\ l.stages # <<>>
    /\ IF l.start_from = "top"
       THEN FLe(l.stages[Len(l.stages)].x_liquid, c.x_W)
       ELSE FGe(l.stages[Len(l.stages)].y_vapor_actual, c.x_D)

\* C1: every call with start_from 'top' or 'bottom' terminates: the body of
\* the stepping loop is executed at most 150 times, each execution advances
\* stage_number by one, and the loop is never re-entered once stage_number
\* has passed 150, whether or not the target was reached.
C1_LoopBodyAtMost150 ==
    \A r \in Runs :
        Started(run[r]) /\ run[r].start_from \in {"top", "bottom"} =>
            /\ run[r].iters <= MaxStages
            /\ run[r].pc \in {"top_loop", "bottom_loop"} =>
                   /\ run[r].stage_number = run[r].iters + 1
                   /\ run[r].stage_number <= MaxStages
            /\ run[r].pc \in {"top_break", "bottom_break"} =>
                   run[r].iters = MaxStages

\* a run that ended on the guard after 150 executions without reaching the target
C1_Witness ==
    /\ run[1].pc = "done"
    /\ run[1].iters = MaxStages
    /\ run[1].warned
    /\ ~Crossed(col[1], run[1])

\* C2 (as claimed): a returned ladder never holds more than 150 stage records.
C2_LadderAtMost150 ==
    \A r \in Runs : run[r].returned => Len(run[r].stages) <= MaxStages

\* C3 (as claimed): a returned ladder whose last stage has not crossed the
\* target, the empty ladder included, was returned with the 150-stage warning.
C3_NeverSilentlyTruncated ==
    \A r \in Runs :
        run[r].returned /\ ~Crossed(col[run[r].obj], run[r]) => run[r].warned

\* C4: a call with start_from outside {'top', 'bottom'} raises the
\* configuration error before any stepping: no stage is computed, no
\* equilibrium query is made, nothing is returned, whatever the efficiency
\* and return_decimal_stages.
C4_InvalidDirectionFailsFast ==
    \A r \in Runs :
        Started(run[r]) /\ run[r].start_from \notin {"top", "bottom"} =>
            /\ run[r].pc = "raised"
            /\ run[r].error = "ValueError"
            /\ run[r].stages = <<>>
            /\ run[r].iters = 0
            /\ run[r].queries = 0
            /\ ~run[r].returned
            /\ ~run[r].has_decimal

C4_Witness ==
    /\ run[1].pc = "raised"
    /\ run[1].start_from = "middle"
    /\ run[1].E = Scale \div 2
    /\ run[1].return_decimal_stages

\* C5 (as claimed): an object is constructed only with all of F, D, W zero
\* or none of them zero.
C5_MixedZeroFlowsRejected ==
    \A o \in Objs :
        col[o].state = "built" =>
            \/ col[o].F = 0 /\ col[o].D = 0 /\ col[o].W = 0
            \/ col[o].F # 0 /\ col[o].D # 0 /\ col[o].W # 0

\* the stages recorded so far, and the one the locals describe if it is recorded
IsTotalRefluxLadder(l) ==
    /\ \A k \in 1..Len(l.stages) : l.stages[k].section = "total-reflux"
    /\ \A k \in 1..(Len(l.stages) - 1) :
           IF l.start_from = "top"
           THEN l.stages[k + 1].y_vapor = l.stages[k].x_liquid
           ELSE l.stages[k + 1].x_liquid = l.stages[k].y_vapor_actual

\* C6: in total-reflux mode every stage of every ladder, in both directions
\* and the crossing stage included, is labelled total-reflux, and each step
\* is taken on the diagonal: top-down the vapour of stage k+1 is the liquid
\* of stage k, bottom-up the liquid of stage k+1 is the actual vapour of
\* stage k.
C6_TotalRefluxLadder ==
    \A r \in Runs :
        Started(run[r]) /\ run[r].pc # "raised" /\ col[run[r].obj].total_reflux =>
            /\ IsTotalRefluxLadder(run[r])
            /\ run[r].pc \in {"top_loop", "top_break"} /\ run[r].stages # <<>> =>
                   run[r].current_y = run[r].stages[Len(run[r].stages)].x_liquid
            /\ run[r].pc \in {"bottom_loop", "bottom_break"} /\ run[r].stages # <<>> =>
                   run[r].current_x = run[r].stages[Len(run[r].stages)].y_vapor_actual

\* a returned total-reflux ladder of several stages that ends with its crossing stage
C6_Witness ==
    /\ run[1].returned
    /\ col[1].total_reflux
    /\ Len(run[1].stages) >= 3
    /\ Crossed(col[1], run[1])
    /\ ~run[1].warned

----------------------------------------------------------------------------
(* Properties of two calls *)

\* C7: in total-reflux mode the ladder and the fractional count do not
\* depend on x_F, q or R: two calls with the same direction and efficiency
\* on total-reflux columns that share the equilibrium model, x_D and x_W
\* return the same stage sequence and the same fractional count.
C7_TotalRefluxIgnoresFeed ==
    \A r1, r2 \in Runs :
        LET c1 == col[run[r1].obj]
            c2 == col[run[r2].obj]
        IN  /\ run[r1].returned /\ run[r2].returned
            /\ c1.total_reflux /\ c2.total_reflux
            /\ c1.vle = c2.vle /\ c1.x_D = c2.x_D /\ c1.x_W = c2.x_W
            /\ run[r1].start_from = run[r2].start_from
            /\ run[r1].E = run[r2].E
            => /\ run[r1].stages = run[r2].stages
               /\ run[r1].has_decimal /\ run[r2].has_decimal =>
                      run[r1].decimal_stages = run[r2].decimal_stages

\* two returned ladders of total-reflux columns that differ in x_F, q and R
C7_Witness ==
    /\ run[1].returned /\ run[2].returned
    /\ run[1].obj = 1 /\ run[2].obj = 2
    /\ col[1].total_reflux /\ col[2].total_reflux
    /\ col[1].x_F # col[2].x_F /\ col[1].q # col[2].q /\ col[1].R # col[2].R
    /\ run[1].start_from = run[2].start_from
    /\ run[1].E = run[2].E
    /\ Len(run[1].stages) >= 3

\* C8: calls are independent.  No step of a call changes a field of a
\* constructed McCabeThiele object or the equilibrium model; every call, with
\* the steps of another call on the same or on another object interleaved in
\* any order, ends as the same call executed alone does; two calls on one
\* object with the same arguments return equal ladders.
C8_CallsIndependent ==
    /\ [](\A r \in Runs :
              Ended(run[r]) =>
                  run[r] = RunAlone(col[run[r].obj], run[r].obj, run[r].start_from,
                                    run[r].E, run[r].return_decimal_stages))
    /\ [](\A r1, r2 \in Runs :
              /\ run[r1].returned /\ run[r2].returned
              /\ run[r1].obj = run[r2].obj
              /\ run[r1].start_from = run[r2].start_from
              /\ run[r1].E = run[r2].E
              => run[r1].stages = run[r2].stages)
    /\ [][/\ vle' = vle
          /\ \A o \in Objs : col[o].state = "built" => col'[o] = col[o]]_vars

\* one call has returned its ladder while another on the same object is in
\* the middle of its loop
C8_Witness ==
    /\ run[1].returned
    /\ Len(run[1].stages) >= 3
    /\ run[2].obj = run[1].obj
    /\ run[2].pc \in {"top_loop", "bottom_loop"}
    /\ Len(run[2].stages) >= 2
    /\ run[2].start_from # run[1].start_from

----------------------------------------------------------------------------
(* Properties of the fractional stage count *)

\* the key values of a ladder and the target of its direction
KeysOf(l) ==
    [i \in 1..Len(l.stages) |->
        IF l.start_from = "top" THEN l.stages[i].x_liquid
        ELSE l.stages[i].y_vapor_actual]

TargetOf(c, l) == IF l.start_from = "top" THEN c.x_W ELSE c.x_D

\* the adjacent pair at ladder positions p, p+1 (counted from 1) brackets t
Brackets(keys, t, direction, p) ==
    IF direction = "top"
    THEN keys[p] >= t /\ t >= keys[p + 1]
    ELSE keys[p] <= t /\ t <= keys[p + 1]

HasBracket(keys, t, direction) ==
    \E p \in 1..(Len(keys) - 1) : Brackets(keys, t, direction, p)

FirstBracket(keys, t, direction) ==
    CHOOSE p \in 1..(Len(keys) - 1) :
        /\ Brackets(keys, t, direction, p)
        /\ \A j \in 1..(p - 1) : ~Brackets(keys, t, direction, j)

ExampleLadder == <<950, 800, 600, 400, 50>>

\* C9: the fractional count of a top-down ladder is i + (x_i - x_W)/(x_i -
\* x_{i+1}) for the first adjacent pair with x_i >= x_W >= x_{i+1}, i being
\* the index of the pair's upper stage counted from 0 (ladder position less
\* one), and symmetrically (x_D - y_i)/(y_{i+1} - y_i) on y_vapor_actual for
\* a bottom-up ladder; for the liquid compositions 0.95, 0.80, 0.60, 0.40,
\* 0.05 and x_W = 0.50 it lies strictly between 2 and 3.
C9_FractionalCount ==
    \A r \in Runs :
        LET l == run[r]
            keys == KeysOf(l)
            t == TargetOf(col[l.obj], l)
        IN  l.pc = "counted" =>
            /\ (HasBracket(keys, t, l.start_from)) =>
                   LET p == FirstBracket(keys, t, l.start_from)
                   IN  l.decimal_stages =
                           FAdd((p - 1) * Scale,
                                IF l.start_from = "top"
                                THEN NpDiv(keys[p] - t, keys[p] - keys[p + 1])
                                ELSE NpDiv(t - keys[p], keys[p + 1] - keys[p]))
            /\ (l.start_from = "top" /\ keys = ExampleLadder /\ t = 500) =>
                   /\ l.decimal_stages > 2 * Scale
                   /\ l.decimal_stages < 3 * Scale

C9_Witness ==
    /\ run[1].pc = "counted"
    /\ run[1].start_from = "top"
    /\ KeysOf(run[1]) = ExampleLadder
    /\ col[1].x_W = 500
    /\ run[1].decimal_stages = 2 * Scale + Scale \div 2

\* the target equals the key of a stage of some adjacent pair
TargetAtEndpoint(keys, t) ==
    \E p \in 1..(Len(keys) - 1) : keys[p] = t \/ keys[p + 1] = t

\* C10 (as claimed): the count falls back to the number of stages when the
\* ladder has fewer than two stages, when no adjacent pair straddles the
\* target, and when the target equals the key of a stage at an endpoint of
\* a pair.
C10_FallbackAsClaimed ==
    \A r \in Runs :
        LET l == run[r]
            keys == KeysOf(l)
            t == TargetOf(col[l.obj], l)
        IN  (/\ l.pc = "counted"
             /\ \/ Len(keys) < 2
                \/ ~HasBracket(keys, t, l.start_from)
                \/ TargetAtEndpoint(keys, t))
            => l.decimal_stages = Len(keys) * Scale

\* C10 (amended): the count is the number of stages, and no error is raised,
\* exactly when the ladder has fewer than two stages or no adjacent pair
\* brackets the target under the inclusive comparison key_i >= target >=
\* key_{i+1} (<= bottom-up); a target equal to the key of a stage makes a
\* pair bracketing whenever the other stage lies on the far side, and the
\* interpolated value is returned then.
C10_FallbackWithoutBracket ==
    \A r \in Runs :
        LET l == run[r]
            keys == KeysOf(l)
            t == TargetOf(col[l.obj], l)
        IN  l.pc = "counted" =>
                /\ l.has_decimal
                /\ l.error = "none"
                /\ (l.decimal_stages = Len(keys) * Scale)
                   <=> (Len(keys) < 2 \/ ~HasBracket(keys, t, l.start_from))

\* a fallback on a ladder one of whose stages has exactly the target as key
C10_Witness ==
    /\ run[1].pc = "counted"
    /\ Len(run[1].stages) >= 2
    /\ TargetAtEndpoint(KeysOf(run[1]), TargetOf(col[1], run[1]))
    /\ ~HasBracket(KeysOf(run[1]), TargetOf(col[1], run[1]), run[1].start_from)
    /\ run[1].decimal_stages = Len(run[1].stages) * Scale

----------------------------------------------------------------------------
(* Properties of the stepping *)

\* a top-down call that has entered its loop
TopRun(l) == l.start_from = "top" /\ l.pc \in {"top_loop", "top_break", "done"}

\* every step so far took the equilibrium liquid composition of its vapour
EquilibriumSteps(c, l) ==
    /\ \A k \in 2..Len(l.stages) :
           l.stages[k].x_liquid = get_x_by_y(c.vle, l.stages[k].y_vapor)
    /\ l.pc # "done" /\ l.stages # <<>> =>
           l.current_x = get_x_by_y(c.vle, l.current_y)

\* every step so far left the liquid composition where it was
NoSeparationSteps(c, l) ==
    /\ \A k \in 1..Len(l.stages) : l.stages[k].x_liquid = c.x_D
    /\ l.pc # "done" => l.current_x = c.x_D

\* the run ended on the guard, after 150 stages none of which crossed
EndedOnGuard(c, l) ==
    /\ l.warned
    /\ Len(l.stages) = MaxStages
    /\ ~Crossed(c, l)

\* C11 (as claimed): top-down, with efficiency 1.0 every step yields the
\* equilibrium composition x_by_y(y_next); with efficiency 0 every step
\* yields x_next = x, the liquid stays at x_D on all stages and, when
\* x_D > x_W, the run ends on the 150-stage guard with no crossing stage.
C11_EfficiencyLimits ==
    \A r \in Runs :
        LET l == run[r]
            c == col[l.obj]
        IN  TopRun(l) =>
                /\ l.E = Scale => EquilibriumSteps(c, l)
                /\ l.E = 0 =>
                       /\ NoSeparationSteps(c, l)
                       /\ l.returned /\ c.x_D > c.x_W => EndedOnGuard(c, l)

\* the liquid compositions of the ladder are strictly decreasing
StrictlyDecreasing(l) ==
    \A k \in 1..(Len(l.stages) - 1) :
        FLt(l.stages[k + 1].x_liquid, l.stages[k].x_liquid)

\* the equilibrium curve lies above the diagonal strictly between x_W and x_D
CurveAboveDiagonal(c) ==
    \A x \in (c.x_W + 1)..(c.x_D - 1) :
        LET y == get_y_by_x(c.vle, x) IN ~IsNaN(y) /\ y > x

\* from every liquid composition in (x_W, x_D] the step along the operating
\* line of the mode and back to the equilibrium curve goes strictly down
\* (the operating line lies below the equilibrium curve)
StepsGoDown(c) ==
    \A x \in (c.x_W + 1)..c.x_D :
        FLt(get_x_by_y(c.vle, TopNextY(c, x)), x)

\* C12 (as claimed): top-down with efficiency 1.0, on a curve with y(x) > x
\* for all x in (x_W, x_D), the liquid compositions of the returned ladder
\* are strictly decreasing, in regular mode and in total-reflux mode.
C12_DecreasingAboveDiagonal ==
    \A r \in Runs :
        LET l == run[r]
            c == col[l.obj]
        IN  (l.returned /\ l.start_from = "top" /\ l.E = Scale) =>
                (CurveAboveDiagonal(c) => StrictlyDecreasing(l))

\* C12 (amended): top-down with efficiency 1.0 the liquid compositions of
\* the returned ladder are strictly decreasing whenever, for every x in
\* (x_W, x_D], the equilibrium liquid of the operating-line vapour at x lies
\* strictly below x: the curve above the diagonal up to and including x_D in
\* total-reflux mode, above the operating lines (R above the minimum reflux)
\* in regular mode.
C12_DecreasingBelowEquilibrium ==
    \A r \in Runs :
        LET l == run[r]
            c == col[l.obj]
        IN  (l.returned /\ l.start_from = "top" /\ l.E = Scale) =>
                (StepsGoDown(c) => StrictlyDecreasing(l))

\* a regular-mode ladder that steps down through both sections to x_W
C12_Witness ==
    /\ run[1].returned /\ run[1].start_from = "top" /\ run[1].E = Scale
    /\ ~col[1].total_reflux
    /\ StepsGoDown(col[1])
    /\ Len(run[1].stages) >= 4
    /\ run[1].stages[1].section = "rectifying"
    /\ run[1].stages[Len(run[1].stages)].section = "stripping"
    /\ Crossed(col[1], run[1])

\* C13: on an equilibrium curve with y(x) = x at every point and
\* x_W < x_D, a stepping run never reaches its target: top-down no recorded
\* stage has x <= x_W and the loop test stays true until the guard breaks
\* the loop, for every reflux ratio and in total-reflux mode (bottom-up
\* likewise for y < x_D, in the calls that are not aborted by an exception);
\* the returned ladder has 150 stages, no crossing stage, and carries the
\* non-convergence warning.
C13_NoSeparationEndsOnGuard ==
    \A r \in Runs :
        LET l == run[r]
            c == col[l.obj]
        IN  (/\ Started(l) /\ l.start_from \in {"top", "bottom"}
             /\ l.pc # "raised"
             /\ c.vle = "diagonal" /\ c.x_W < c.x_D)
            => /\ l.start_from = "top" =>
                      /\ \A k \in 1..Len(l.stages) : l.stages[k].x_liquid > c.x_W
                      /\ l.pc = "top_loop" => TopWhile(c, l)
               /\ l.start_from = "bottom" =>
                      /\ \A k \in 1..Len(l.stages) :
                             l.stages[k].y_vapor_actual < c.x_D
                      /\ l.pc = "bottom_loop" => BottomWhile(c, l)
               /\ l.returned => EndedOnGuard(c, l)

\* a regular-mode top-down run on the diagonal curve returned from the guard
C13_Witness ==
    /\ run[1].returned /\ run[1].start_from = "top"
    /\ col[1].vle = "diagonal" /\ col[1].x_W < col[1].x_D
    /\ ~col[1].total_reflux
    /\ col[1].R > 0
    /\ EndedOnGuard(col[1], run[1])

----------------------------------------------------------------------------
(* Properties of the equilibrium queries *)

\* q lies strictly outside the samples of the input axis of fn
OutOfRange(v, fn, q) ==
    \/ q < SeqMin(Column(DataPoints(v), InputAxis(fn)))
    \/ q > SeqMax(Column(DataPoints(v), InputAxis(fn)))

\* C14: each of the six map queries, at a value strictly outside [min, max]
\* of the samples of its input axis, answers NaN, scalar or element of a
\* batch, of floats or of integers; an element inside the range carries the
\* value the scalar query gives for it, which is not NaN; no query fails.
C14_OutOfDomainIsNaN ==
    ask.pc = "answered" /\ ask.fn \in MapQueries =>
        /\ Len(ask.result) = Len(ask.arg)
        /\ \A i \in 1..Len(ask.arg) :
               IF OutOfRange(vle, ask.fn, ask.arg[i])
               THEN IsNaN(ask.result[i])
               ELSE /\ ~IsNaN(ask.result[i])
                    /\ ask.result[i] = ScalarQuery(vle, ask.fn, ask.arg[i])

\* a batch with one element outside and one inside the sampled range
C14_Witness ==
    /\ ask.pc = "answered" /\ ask.batch /\ ask.fn = "get_x_by_y"
    /\ Len(ask.arg) = 2
    /\ OutOfRange(vle, ask.fn, ask.arg[1])
    /\ IsNaN(ask.result[1])
    /\ ~OutOfRange(vle, ask.fn, ask.arg[2])
    /\ ~IsNaN(ask.result[2])

\* C15 (as claimed): with fewer than two data points carrying alpha, every
\* alpha query, scalar or batch, answers NaN in every element: never zero,
\* never another value.
C15_AlphaSentinel ==
    (/\ ask.pc = "answered" /\ ask.fn \in AlphaQueries
     /\ Len(AlphaPoints(DataPoints(vle))) < 2)
    => \A i \in 1..Len(ask.result) : IsNaN(ask.result[i])

----------------------------------------------------------------------------
(* Properties of the web page *)

\* C16 (as claimed): a request with x_D = x_W, whose flows D and W cannot be
\* derived, fails at once with an error: no column is built in any mode and
\* no ladder is computed from it.
C16_EqualEndsRejected ==
    web.pc # "idle" /\ web.x_D = web.x_W =>
        /\ web.pc = "raised"
        /\ col[1].state # "built"
        /\ run[1] = NewRun

----------------------------------------------------------------------------
(* Properties of VLEManager *)

\* C17: the built-in directory is loaded first and the user directory
\* second: after the first load every entry refers to a built-in file; in
\* the constructed manager a key with a readable file in the user directory
\* refers to the user file (path, name, components), also when the built-in
\* directory has a readable file of the same name; a key readable only in
\* the built-in directory keeps its built-in entry; any other key is absent.
C17_UserFilesOverride ==
    /\ mgr.pc = "loading" /\ mgr.loaded = 1 =>
           \A k \in FileKeys :
               mgr.data_files[k] =
                   IF mgr.dirs.builtin[k] \in ReadableKinds
                   THEN FileInfo("builtin", k, mgr.dirs.builtin[k])
                   ELSE NoFileInfo
    /\ mgr.pc = "ready" =>
           \A k \in FileKeys :
               mgr.data_files[k] =
                   IF mgr.dirs.user[k] \in ReadableKinds
                   THEN FileInfo("user", k, mgr.dirs.user[k])
                   ELSE IF mgr.dirs.builtin[k] \in ReadableKinds
                   THEN FileInfo("builtin", k, mgr.dirs.builtin[k])
                   ELSE NoFileInfo

\* a manager with one key in both directories and one only in the built-in
C17_Witness ==
    /\ mgr.pc = "ready"
    /\ mgr.dirs.builtin["system1"] = "ok" /\ mgr.dirs.user["system1"] = "ok"
    /\ mgr.data_files["system1"].path = <<"user", "system1">>
    /\ mgr.dirs.builtin["system2"] = "ok" /\ mgr.dirs.user["system2"] = "absent"
    /\ mgr.data_files["system2"].path = <<"builtin", "system2">>

\* the rectifying line y = (L/V) x + D x_D / V
RectifyingLine(c, x) == FAdd(FMul(c.L_over_V, x), c.D_xD_over_V)

\* the stripping line y = (L'/V') x - W x_W / V'
StrippingLine(c, x) ==
    FSub(FMul(c.L_prime_over_V_prime, x), c.W_xW_over_V_prime)

\* the rectifying line solved for x
RectifyingLineInverse(c, y) ==
    FDiv(FSub(FMul(c.V, y), FMul(c.D, c.x_D)), c.L)

\* the stripping line solved for x
StrippingLineInverse(c, y) ==
    FDiv(FAdd(FMul(c.V_prime, y), FMul(c.W, c.x_W)), c.L_prime)

\* a regular-mode run with its ladder, whole or under construction
RegularRun(c, l) ==
    /\ Started(l) /\ l.start_from \in {"top", "bottom"}
    /\ c.state = "built" /\ ~c.total_reflux

\* stage k of the ladder was stepped away from along the line of its label
SteppedAlongLabel(c, l, k) ==
    LET here == l.stages[k]
        there == l.stages[k + 1]
    IN  IF l.start_from = "top"
        THEN there.y_vapor =
                 IF here.section = "rectifying"
                 THEN RectifyingLine(c, here.x_liquid)
                 ELSE StrippingLine(c, here.x_liquid)
        ELSE there.x_liquid =
                 IF here.section = "rectifying"
                 THEN RectifyingLineInverse(c, here.y_vapor_actual)
                 ELSE StrippingLineInverse(c, here.y_vapor_actual)

\* C19: in regular mode, in both directions, every recorded stage is
\* labelled rectifying iff its x is above x_int (never by x_F), stripping
\* otherwise, and the step away from a stage follows the rectifying line iff
\* the stage is labelled rectifying and the stripping line iff it is labelled
\* stripping.
C19_SwitchPointDecidesSection ==
    \A r \in Runs :
        LET l == run[r]
            c == col[l.obj]
        IN  RegularRun(c, l) =>
                /\ \A k \in 1..Len(l.stages) :
                       /\ l.stages[k].section \in {"rectifying", "stripping"}
                       /\ l.stages[k].section = "rectifying"
                              <=> FGt(l.stages[k].x_liquid, c.x_intersect)
                /\ \A k \in 1..(Len(l.stages) - 1) : SteppedAlongLabel(c, l, k)

\* a bottom-up ladder that was stepped away from a stage lying between x_int
\* and x_F, where the two switch points disagree, and went on to x_D
C19_Witness ==
    \E r \in Runs :
        LET l == run[r]
            c == col[l.obj]
        IN  /\ RegularRun(c, l) /\ l.start_from = "bottom" /\ l.returned
            /\ Crossed(c, l)
            /\ \E k \in 1..(Len(l.stages) - 1) :
                   /\ FGt(l.stages[k].x_liquid, c.x_intersect)
                   /\ FLe(l.stages[k].x_liquid, c.x_F)
                   /\ l.stages[k].section = "rectifying"
                   /\ l.stages[k + 1].section = "rectifying"

Abs(n) == IF n < 0 THEN 0 - n ELSE n

\* the rounding allowed between two sides of a line equation, in units of
\* 1/Scale
Tolerance ==
    5

\* a regular-mode object the constructor returned
RegularColumn(c) == c.state = "built" /\ ~c.total_reflux

\* the overall and the component mass balance: F = D + W and
\* F x_F = D x_D + W x_W
Balanced(c) ==
    /\ c.F = c.D + c.W
    /\ c.F * c.x_F = c.D * c.x_D + c.W * c.x_W

\* the point lies on the q-line through (x_F, x_F):
\* (q - 1)(y - x_F) = q (x - x_F), vertical for q = 1, horizontal for q = 0
OnQLine(c, x, y) ==
    Abs((c.q - Scale) * (y - c.x_F) - c.q * (x - c.x_F)) <= Tolerance * Scale

OnRectifyingLine(c, x, y) == Abs(y - RectifyingLine(c, x)) <= Tolerance

OnStrippingLine(c, x, y) == Abs(y - StrippingLine(c, x)) <= Tolerance

CommonIntersection(c) ==
    /\ OnRectifyingLine(c, c.x_intersect, c.y_intersect)
    /\ OnQLine(c, c.x_intersect, c.y_intersect)
    /\ OnStrippingLine(c, c.x_intersect, c.y_intersect)

C21_ClosedFormFeedLine ==
    \A o \in Objs :
        LET c == col[o]
        IN  RegularColumn(c) =>
                /\ c.q = Scale => c.x_intersect = c.x_F
                /\ c.q = 0 => Abs(c.y_intersect - c.x_F) <= Tolerance
                /\ c.q \notin {0, Scale} =>
                       /\ OnQLine(c, c.x_intersect, c.y_intersect)
                       /\ OnRectifyingLine(c, c.x_intersect, c.y_intersect)
                /\ c.y_intersect = RectifyingLine(c, c.x_intersect)

\* a column with a saturated-vapour feed: the switch point is left of x_F
C21_Witness ==
    /\ RegularColumn(col[1])
    /\ col[1].q = 0
    /\ col[1].x_intersect < col[1].x_F
    /\ Abs(col[1].y_intersect - col[1].x_F) <= Tolerance

\* the operating line of the mode and of the section x lies in
ActiveLine(c, x) ==
    IF c.total_reflux THEN x
    ELSE IF FGt(x, c.x_intersect) THEN RectifyingLine(c, x)
    ELSE StrippingLine(c, x)

\* a top-down run of a constructed column, its ladder whole or growing
TopDownRun(c, l) ==
    Started(l) /\ l.start_from = "top" /\ c.state = "built"

\* C22: stage 1 of a non-empty top-down ladder is (x, y) = (x_D, x_D); for
\* every adjacent pair of stages k, k+1, k = 1 included, y_{k+1} is the
\* active operating line at x_k (rectifying if x_k > x_int, stripping
\* otherwise, the diagonal in total reflux) and
\* x_{k+1} = x_k - E_ml (x_k - x_by_y(y_{k+1})) with the caller's E_ml.
C22_TopDownRecurrence ==
    \A r \in Runs :
        LET l == run[r]
            c == col[l.obj]
        IN  TopDownRun(c, l) =>
                /\ l.stages # <<>> =>
                       /\ l.stages[1].x_liquid = c.x_D
                       /\ l.stages[1].y_vapor = c.x_D
                /\ \A k \in 1..(Len(l.stages) - 1) :
                       LET x_k == l.stages[k].x_liquid
                           y_next == l.stages[k + 1].y_vapor
                       IN  /\ y_next = ActiveLine(c, x_k)
                           /\ l.stages[k + 1].x_liquid =
                                  FSub(x_k, FMul(l.E,
                                      FSub(x_k, get_x_by_y(c.vle, y_next))))

\* a regular-mode ladder stepped with efficiency 0.5 through both sections
\* down to x_W
C22_Witness ==
    /\ TopDownRun(col[1], run[1]) /\ run[1].returned
    /\ ~col[1].total_reflux
    /\ run[1].E = Scale \div 2
    /\ Len(run[1].stages) >= 4
    /\ run[1].stages[2].section = "rectifying"
    /\ run[1].stages[Len(run[1].stages) - 1].section = "stripping"
    /\ Crossed(col[1], run[1])

\* C23: in a top-down ladder the stage indices are 1, 2, ..., n in order;
\* every stage except possibly the last has x > x_W; a stage with x <= x_W
\* appears only as the last record of a returned ladder (the crossing
\* stage), and it is recorded whenever the stepping has reached x <= x_W
\* after at least one stage.
C23_CrossingStructure ==
    \A r \in Runs :
        LET l == run[r]
            c == col[l.obj]
            n == Len(l.stages)
        IN  TopDownRun(c, l) =>
                /\ \A k \in 1..n : l.stages[k].stage = k
                /\ \A k \in 1..(n - 1) : FGt(l.stages[k].x_liquid, c.x_W)
                /\ ~l.returned => \A k \in 1..n : FGt(l.stages[k].x_liquid, c.x_W)
                /\ (l.returned /\ n > 0 /\ FLe(l.current_x, c.x_W)) =>
                       /\ l.stages[n].x_liquid = l.current_x
                       /\ l.stages[n].y_vapor = l.current_y
                       /\ n = l.stage_number
                /\ (l.returned /\ n > 0 /\ ~FLe(l.current_x, c.x_W)) =>
                       FGt(l.stages[n].x_liquid, c.x_W)

\* the loop was left by the guard on the very step that reached x_W: the
\* crossing stage is recorded as stage 151
C23_Witness ==
    /\ TopDownRun(col[1], run[1]) /\ run[1].returned
    /\ run[1].warned
    /\ Crossed(col[1], run[1])
    /\ Len(run[1].stages) = MaxStages + 1
    /\ FGt(run[1].stages[MaxStages].x_liquid, col[1].x_W)

\* the inverse of the operating line of the mode and of the section x lies in
ActiveLineInverse(c, x, y) ==
    IF c.total_reflux THEN y
    ELSE IF FLe(x, c.x_intersect) THEN StrippingLineInverse(c, y)
    ELSE RectifyingLineInverse(c, y)

\* a bottom-up run of a constructed column, its ladder whole or growing
BottomUpRun(c, l) ==
    Started(l) /\ l.start_from = "bottom" /\ c.state = "built"

\* stage 1 and the step between every adjacent pair of stages of a
\* bottom-up ladder
BottomUpSteps(c, l) ==
    /\ l.stages # <<>> =>
           /\ l.stages[1].x_liquid = c.x_W
           /\ l.stages[1].y_vapor_actual = get_y_by_x(c.vle, c.x_W)
           /\ l.stages[1].y_vapor_equilibrium = get_y_by_x(c.vle, c.x_W)
    /\ \A k \in 1..(Len(l.stages) - 1) :
           LET here == l.stages[k]
               there == l.stages[k + 1]
           IN  /\ FLt(here.y_vapor_actual, c.x_D)
               /\ there.x_liquid =
                      ActiveLineInverse(c, here.x_liquid, here.y_vapor_actual)
               /\ there.y_vapor_equilibrium = get_y_by_x(c.vle, there.x_liquid)
               /\ there.y_vapor_actual =
                      FAdd(here.y_vapor_actual,
                           FMul(l.E, FSub(there.y_vapor_equilibrium,
                                          here.y_vapor_actual)))

\* the last record of the ladder is the state the stepping stopped in
LastStageIsCurrent(l) ==
    /\ l.stages # <<>>
    /\ l.stages[Len(l.stages)].y_vapor_actual = l.current_y_actual
    /\ l.stages[Len(l.stages)].x_liquid = l.current_x
    /\ l.stages[Len(l.stages)].stage = Len(l.stages)

\* C24 (as claimed): stage 1 of a non-empty bottom-up ladder has x = x_W and
\* y_actual = y_equilibrium = y_by_x(x_W); for every adjacent pair k, k+1,
\* x_{k+1} is the inverse of the active operating line at y_actual_k
\* (stripping if x_k <= x_int, else rectifying, y_actual_k itself in total
\* reflux), y_equilibrium_{k+1} = y_by_x(x_{k+1}) and
\* y_actual_{k+1} = y_actual_k + E_mv (y_equilibrium_{k+1} - y_actual_k);
\* stepping repeats while y_actual < x_D, and the first stage with
\* y_actual >= x_D is recorded as the last stage.
C24_BottomUpRecurrence ==
    \A r \in Runs :
        LET l == run[r]
            c == col[l.obj]
        IN  BottomUpRun(c, l) =>
                /\ BottomUpSteps(c, l)
                /\ (l.returned /\ FGe(l.current_y_actual, c.x_D)) =>
                       LastStageIsCurrent(l)

\* C24 (amended): the same recurrence, and the first stage with
\* y_actual >= x_D is recorded as the last stage when at least one stage
\* was recorded before it; when y_by_x(x_W) >= x_D already, the loop is not
\* entered and the ladder is empty.
C24_BottomUpRecurrenceAfterOneStage ==
    \A r \in Runs :
        LET l == run[r]
            c == col[l.obj]
        IN  BottomUpRun(c, l) =>
                /\ BottomUpSteps(c, l)
                /\ (l.returned /\ FGe(l.current_y_actual, c.x_D)) =>
                       IF FGe(get_y_by_x(c.vle, c.x_W), c.x_D)
                       THEN l.stages = <<>>
                       ELSE LastStageIsCurrent(l)

\* a regular-mode ladder stepped up with efficiency 0.5 through both
\* sections to x_D
C24_Witness ==
    /\ BottomUpRun(col[1], run[1]) /\ run[1].returned
    /\ ~col[1].total_reflux
    /\ run[1].E = Scale \div 2
    /\ Len(run[1].stages) >= 4
    /\ run[1].stages[1].section = "stripping"
    /\ run[1].stages[Len(run[1].stages) - 1].section = "rectifying"
    /\ Crossed(col[1], run[1])

\* C25: in both directions the stage-1 record carries efficiency 1.0 and
\* compositions that do not depend on murphree_efficiency (x_D and x_D
\* top-down, x_W and y_by_x(x_W) bottom-up), and every later record, the
\* final crossing stage included, carries the caller's efficiency.
C25_FirstStageIdeal ==
    \A r \in Runs :
        LET l == run[r]
            c == col[l.obj]
        IN  (TopDownRun(c, l) \/ BottomUpRun(c, l)) =>
                /\ l.stages # <<>> =>
                       /\ l.stages[1].efficiency = Scale
                       /\ l.stages[1].stage = 1
                       /\ IF l.start_from = "top"
                          THEN <<l.stages[1].x_liquid, l.stages[1].y_vapor>> =
                                   <<c.x_D, c.x_D>>
                          ELSE <<l.stages[1].x_liquid,
                                 l.stages[1].y_vapor_actual>> =
                                   <<c.x_W, get_y_by_x(c.vle, c.x_W)>>
                /\ \A k \in 2..Len(l.stages) : l.stages[k].efficiency = l.E

\* a top-down ladder that reached x_W with efficiency 0.5: 1.0 on the first
\* record, 0.5 on every later one
C25_Witness ==
    /\ TopDownRun(col[1], run[1]) /\ run[1].returned
    /\ run[1].E = Scale \div 2
    /\ Len(run[1].stages) >= 3
    /\ run[1].stages[1].efficiency = Scale
    /\ run[1].stages[2].efficiency = Scale \div 2
    /\ run[1].stages[Len(run[1].stages)].efficiency = Scale \div 2
    /\ Crossed(col[1], run[1])

\* stage k of the ladder lies exactly on the switch point of a regular
\* column and was stepped away from
OnSwitchPoint(c, l, k) ==
    /\ RegularRun(c, l)
    /\ k < Len(l.stages)
    /\ l.stages[k].x_liquid = c.x_intersect

\* the operating line the step away from stage k followed, read off the
\* next stage
LineTaken(c, l, k) ==
    LET here == l.stages[k]
        there == l.stages[k + 1]
        rectifying ==
            IF l.start_from = "top"
            THEN there.y_vapor = RectifyingLine(c, here.x_liquid)
            ELSE there.x_liquid = RectifyingLineInverse(c, here.y_vapor_actual)
        stripping ==
            IF l.start_from = "top"
            THEN there.y_vapor = StrippingLine(c, here.x_liquid)
            ELSE there.x_liquid = StrippingLineInverse(c, here.y_vapor_actual)
    IN  CASE rectifying /\ stripping -> "both"
          [] rectifying -> "rectifying"
          [] stripping -> "stripping"
          [] OTHER -> "neither"

\* C26 (as claimed): in regular mode, for a stage with x = x_int, the
\* top-down step and the bottom-up step select different operating lines,
\* the stripping line in one direction and the rectifying line in the other.
C26_BoundaryDirectionDependent ==
    \A r1, r2 \in Runs :
        \A k1 \in 1..Len(run[r1].stages), k2 \in 1..Len(run[r2].stages) :
            (/\ run[r1].start_from = "top" /\ run[r2].start_from = "bottom"
             /\ OnSwitchPoint(col[run[r1].obj], run[r1], k1)
             /\ OnSwitchPoint(col[run[r2].obj], run[r2], k2))
            => LineTaken(col[run[r1].obj], run[r1], k1)
                   # LineTaken(col[run[r2].obj], run[r2], k2)

\* C26 (amended): in regular mode the choice at x = x_int does not depend on
\* the direction: for a stage with x = x_int the top-down step (x > x_int
\* fails) and the bottom-up step (x <= x_int holds) both follow the
\* stripping line, and the stage is labelled stripping.
C26_BoundaryIsStripping ==
    \A r \in Runs :
        LET l == run[r]
            c == col[l.obj]
        IN  \A k \in 1..Len(l.stages) :
                OnSwitchPoint(c, l, k) =>
                    /\ LineTaken(c, l, k) = "stripping"
                    /\ l.stages[k].section = "stripping"

\* a top-down ladder and a bottom-up ladder side by side, each with its
\* first stage on the switch point and a second stage after it
C26_Witness ==
    /\ run[1].start_from = "top" /\ run[2].start_from = "bottom"
    /\ OnSwitchPoint(col[1], run[1], 1)
    /\ OnSwitchPoint(col[2], run[2], 1)
    /\ RectifyingLine(col[1], col[1].x_intersect)
           # StrippingLine(col[1], col[1].x_intersect)

\* C27 (as claimed): the feed-stage position print_summary reports in
\* regular mode is the index of a stage of the ladder: top-down the first
\* stage labelled stripping, bottom-up the last stage labelled stripping.
C27_FeedStageIsStrippingStage ==
    (summary.pc = "printed" /\ summary.sections) =>
        LET l == run[summary.run]
            n == Len(l.stages)
            f == summary.feed_stage
        IN  /\ f \in 1..n
            /\ l.stages[f].section = "stripping"
            /\ IF l.start_from = "top"
               THEN \A k \in 1..(f - 1) : l.stages[k].section # "stripping"
               ELSE \A k \in (f + 1)..n : l.stages[k].section # "stripping"

\* a call that returned its ladder together with the fractional count
CountedRun(c, l) ==
    /\ l.returned /\ l.has_decimal
    /\ l.start_from \in {"top", "bottom"} /\ c.state = "built"

\* C28: for every top-down ladder with n >= 2 stages that reached the
\* target with strictly decreasing liquid compositions, the fractional count
\* lies in (n - 2, n - 1], hence strictly below the stage count n; the
\* fallback for a ladder with no bracketing pair returns n itself.
C28_FractionBelowStageCount ==
    \A r \in Runs :
        LET l == run[r]
            c == col[l.obj]
            n == Len(l.stages)
        IN  CountedRun(c, l) =>
                /\ (/\ l.start_from = "top" /\ n >= 2
                    /\ Crossed(c, l) /\ StrictlyDecreasing(l)) =>
                       /\ (n - 2) * Scale < l.decimal_stages
                       /\ l.decimal_stages <= (n - 1) * Scale
                       /\ l.decimal_stages < n * Scale
                /\ ~HasBracket(KeysOf(l), TargetOf(c, l), l.start_from) =>
                       l.decimal_stages = n * Scale

\* a regular-mode top-down ladder that crossed x_W strictly inside its last
\* pair: the count is strictly between n - 2 and n - 1
C28_Witness ==
    /\ CountedRun(col[1], run[1]) /\ run[1].start_from = "top"
    /\ ~col[1].total_reflux
    /\ Len(run[1].stages) >= 4
    /\ Crossed(col[1], run[1]) /\ StrictlyDecreasing(run[1])
    /\ run[1].stages[Len(run[1].stages)].x_liquid < col[1].x_W
    /\ run[1].decimal_stages > (Len(run[1].stages) - 2) * Scale
    /\ run[1].decimal_stages < (Len(run[1].stages) - 1) * Scale

----------------------------------------------------------------------------
(* Properties of the cache round trip *)

\* get_cached_data returned, for parameters some cache_data call was given
ReadOfCached(n) == n.pc = "read" /\ ItemsOf(n.params) \in DOMAIN n.written

\* C29: after cache_data(df, P) completes, get_cached_data(P) returns a
\* table equal to df, the file being read in the format it was written in,
\* for every parameter dictionary P and whatever the key order of P; for
\* parameters never cached get_cached_data returns None.
C29_CacheRoundTrip ==
    nist.pc = "read" =>
        IF ItemsOf(nist.params) \in DOMAIN nist.written
        THEN nist.result = [tag |-> "frame",
                            df |-> nist.written[ItemsOf(nist.params)]]
        ELSE nist.result = None

----------------------------------------------------------------------------
(* Properties of concurrent cache writes *)

\* both cache_data calls have returned
BothDone(n) == n.pc = "race" /\ \A p \in Callers : n.calls[p].pc = "done"

\* C30: two cache_data calls with different request parameters, their
\* load-index, write-data-file and save-index steps interleaved in any
\* order, leave an index file that holds the entries of both requests, so
\* get_cached_data hits for both.
C30_NoEntryLost ==
    BothDone(nist) =>
        \A p \in Callers :
            /\ _get_request_hash(nist.calls[p].params) \in DOMAIN nist.index
            /\ get_cached_data(nist, nist.calls[p].params) # None

----------------------------------------------------------------------------
(* Properties of fetch_isotherm_data *)

\* the request failed: a status other than 200, or a text without data lines
FetchFailed(response) ==
    /\ response.kind = "status"
    /\ response.status_code # 200 \/ DataLines(response) = 0

\* the call that ends in the primed state found its parameters in the index
CacheHeld(n, params) == _get_request_hash(params) \in DOMAIN n.index

\* C18: once a fetch with parameters P has succeeded and been cached, every
\* later fetch_isotherm_data call with the same P returns the cached table
\* and sends no network request; a fetch that fails (a status other than 200,
\* or no data lines) returns None and leaves the cache index as it was.
C18_ServedFromCache ==
    [][/\ CacheHeld(nist, nist'.params) =>
            /\ nist'.result.tag = "frame"
            /\ to_json(nist'.result.df, CacheOrient(nist.module)) =
                   nist.files[nist.index[_get_request_hash(nist'.params)].filename]
            /\ nist'.requests = nist.requests
       /\ FetchFailed(nist'.response) =>
            /\ nist'.result = None
            /\ nist'.index = nist.index]_vars


====
